---- MODULE Spec2Model ----
(***************************************************************************)
(* Model of the calculation engine of the time tracker                     *)
(* (src/lib/calculations.ts): minutesBetween, getPeriodRange,              *)
(* getPeriodByOffset, calculateTotals and groupShiftsByDay.                *)
(*                                                                         *)
(* Strings are sequences of one-character strings, so that parsing,        *)
(* formatting and lexicographic comparison are computed and not assumed.   *)
(* A JavaScript Date is its time value, kept in minutes since              *)
(* 1970-01-01T00:00Z (no operation of the engine looks below the minute);  *)
(* the host's zone is a fixed offset tz, in minutes east of UTC.           *)
(* The application is modelled from its mounted state on: every handler  *)
(* is an action, and a handler that awaits is one action for each part   *)
(* between two awaits.                                                   *)
(* A number that need not be an integer (hours, pay) is an IEEE 754 double, *)
(* kept as a sign and a magnitude counted in units of 2^-59 and rounded to  *)
(* 53 significant bits, to nearest, ties to even, after every operation.   *)
(***************************************************************************)
EXTENDS Integers, Sequences, FiniteSets, TLC

VARIABLES op, args, source, result, shifts

\* state of the application (App.tsx): the rows of the database, the state
\* hooks of App, the dialog of window.alert and the handler invocations that
\* have started
VARIABLES dbShifts, settings, form, editingId, isAddOpen, uuids, saves, alertMessage,
          activeView, periodOffset, invoiceProfile, invoiceDraft, dbInvoiceProfile,
          invoiceForm, isInvoiceScreenOpen, isInvoiceEditing, showEmailPrompt,
          lastInvoiceNumber, invoices, settingsDraft, isSettingsOpen, dbSettings,
          settingsSaves, isInvoiceModalOpen, profileSaves, deletes, load

\* the state of the shift form and of the invoice screen
formVars == <<dbShifts, settings, form, editingId, isAddOpen, uuids, saves>>

invoiceVars == <<activeView, periodOffset, invoiceProfile, invoiceDraft, dbInvoiceProfile,
                 invoiceForm, isInvoiceScreenOpen, isInvoiceEditing, showEmailPrompt,
                 lastInvoiceNumber, invoices>>

\* the state of the Settings and Invoice details modals, the invocations of
\* handleDelete and the load effect
settingsVars == <<settingsDraft, isSettingsOpen, dbSettings, settingsSaves>>

detailsVars == <<isInvoiceModalOpen, profileSaves>>

pageVars == <<settingsVars, detailsVars, deletes, load>>

appVars == <<formVars, invoiceVars, pageVars, alertMessage>>

callVars == <<args, source, result>>

vars == <<op, args, source, result, shifts, appVars>>

NULL == [null |-> TRUE]

(***************************************************************************)
(* Bounds of the model.                                                    *)
(***************************************************************************)
\* shift collections have 0..MaxShifts shifts
MaxShifts == 3
\* period offsets range over -MaxOffset..MaxOffset
MaxOffset == 2
\* reference dates are drawn from FirstRefYear..FirstRefYear+NumRefYears-1
NumRefYears == 2
\* at most MaxInvoices invocations of saveInvoicePdf are started
MaxInvoices == 1
\* at most MaxSaves invocations of each handler that writes to the database
\* (handleSave, handleDelete, saveSettings, saveInvoiceProfile) are started
MaxSaves == 1

(***************************************************************************)
(* Strings.                                                                *)
(***************************************************************************)
DigitChars == <<"0", "1", "2", "3", "4", "5", "6", "7", "8", "9">>

Digit(n) == DigitChars[n + 1]

CharVal(c) == CHOOSE i \in 0..9 : DigitChars[i + 1] = c

\* UTF-16 code unit of the characters that occur in times and dates
CharCode(c) == CASE c = "-" -> 45
                 [] c = ":" -> 58
                 [] OTHER -> 48 + CharVal(c)

\* String(n) for a non-negative integer
RECURSIVE ToStr(_)
ToStr(n) == IF n < 10 THEN <<Digit(n)>> ELSE ToStr(n \div 10) \o <<Digit(n % 10)>>

\* s.padStart(2, '0')
PadStart2(s) == IF Len(s) < 2 THEN <<"0">> \o s ELSE s

\* Number(s) for a string of decimal digits
RECURSIVE ToNumber(_)
ToNumber(s) == IF Len(s) = 0 THEN 0
               ELSE 10 * ToNumber(SubSeq(s, 1, Len(s) - 1)) + CharVal(s[Len(s)])

\* s.split(sep) for a one-character separator
RECURSIVE Split(_, _)
Split(s, sep) ==
  IF \E i \in 1..Len(s) : s[i] = sep
  THEN LET i == CHOOSE k \in 1..Len(s) : s[k] = sep /\ \A j \in 1..(k - 1) : s[j] # sep
       IN <<SubSeq(s, 1, i - 1)>> \o Split(SubSeq(s, i + 1, Len(s)), sep)
  ELSE <<s>>

\* a < b on strings: comparison by code units, a proper prefix being smaller
RECURSIVE StrLT(_, _)
StrLT(a, b) ==
  IF Len(b) = 0 THEN FALSE
  ELSE IF Len(a) = 0 THEN TRUE
  ELSE IF CharCode(a[1]) # CharCode(b[1]) THEN CharCode(a[1]) < CharCode(b[1])
  ELSE StrLT(Tail(a), Tail(b))

\* a <= b and a >= b on strings
StrLE(a, b) == ~StrLT(b, a)

StrGE(a, b) == ~StrLT(a, b)

\* a.localeCompare(b) on the digit-and-hyphen strings of the engine
LocaleCompare(a, b) == IF StrLT(a, b) THEN -1 ELSE IF StrLT(b, a) THEN 1 ELSE 0

Max(a, b) == IF a >= b THEN a ELSE b

(***************************************************************************)
(* Numbers (IEEE 754 doubles).  A magnitude is a natural number of units   *)
(* of 2^-59, written as four limbs of 24 bits, the least significant       *)
(* first.  Hours and pay of the engine lie below 2^18, so that a rounding  *)
(* never drops more than the lowest limb.                                  *)
(***************************************************************************)
LimbBase == 16777216

FixZero == <<0, 0, 0, 0>>

\* the limbs of the natural number whose limb i holds s[i], of any sign
FixNorm(s) ==
  LET t2 == s[2] + (s[1] \div LimbBase)
      t3 == s[3] + (t2 \div LimbBase)
  IN <<s[1] % LimbBase, t2 % LimbBase, t3 % LimbBase, s[4] + (t3 \div LimbBase)>>

FixAdd(a, b) == FixNorm(<<a[1] + b[1], a[2] + b[2], a[3] + b[3], a[4] + b[4]>>)

\* a - b, for a >= b
FixSub(a, b) == FixNorm(<<a[1] - b[1], a[2] - b[2], a[3] - b[3], a[4] - b[4]>>)

\* a * k, for a natural number k < 128
FixMul(a, k) == FixNorm(<<a[1] * k, a[2] * k, a[3] * k, a[4] * k>>)

FixLT(a, b) ==
  IF a[4] # b[4] THEN a[4] < b[4]
  ELSE IF a[3] # b[3] THEN a[3] < b[3]
  ELSE IF a[2] # b[2] THEN a[2] < b[2]
  ELSE a[1] < b[1]

\* number of significant bits of a limb and of a magnitude
LimbBits(x) == IF x = 0 THEN 0 ELSE CHOOSE k \in 1..31 : 2^(k - 1) <= x /\ (k = 31 \/ x < 2^k)

FixBits(a) ==
  IF a[4] > 0 THEN 72 + LimbBits(a[4])
  ELSE IF a[3] > 0 THEN 48 + LimbBits(a[3])
  ELSE IF a[2] > 0 THEN 24 + LimbBits(a[2])
  ELSE LimbBits(a[1])

\* a rounded to 53 significant bits, to nearest, ties to even; sticky tells
\* that the exact value lies above a by less than one unit
Round53(a, sticky) ==
  LET dropped == FixBits(a) - 53
      P == 2^dropped
      rest == a[1] % P
      half == P \div 2
      odd == IF dropped = 24 THEN a[2] % 2 = 1 ELSE (a[1] \div P) % 2 = 1
      up == rest > half \/ (rest = half /\ (sticky \/ odd))
  IN IF dropped <= 0 THEN a
     ELSE FixNorm(<<a[1] - rest + (IF up THEN P ELSE 0), a[2], a[3], a[4]>>)

NumZero == [neg |-> FALSE, mag |-> FixZero]

\* the double of an integer k, 0 <= k < 8192
NumOfInt(k) == [neg |-> FALSE, mag |-> <<0, 0, k * 2048, 0>>]

\* minutes / 60 for an integer number of minutes, -1440 < minutes < 1440
NumDivSixty(minutes) ==
  LET w == IF minutes < 0 THEN -minutes ELSE minutes
      n2 == w * 2048
      q2 == n2 \div 60
      r2 == n2 % 60
      q1 == (r2 * LimbBase) \div 60
      r1 == (r2 * LimbBase) % 60
      q0 == (r1 * LimbBase) \div 60
      r0 == (r1 * LimbBase) % 60
  IN [neg |-> minutes < 0, mag |-> Round53(<<q0, q1, q2, 0>>, r0 # 0)]

\* x * rate for an integer rate, 0 <= rate < 128
NumTimes(x, rate) ==
  LET mag == Round53(FixMul(x.mag, rate), FALSE)
  IN [neg |-> x.neg /\ mag # FixZero, mag |-> mag]

\* a + b
NumPlus(a, b) ==
  IF a.neg = b.neg THEN [neg |-> a.neg, mag |-> Round53(FixAdd(a.mag, b.mag), FALSE)]
  ELSE IF a.mag = b.mag THEN NumZero
  ELSE IF FixLT(a.mag, b.mag)
  THEN [neg |-> b.neg, mag |-> Round53(FixSub(b.mag, a.mag), FALSE)]
  ELSE [neg |-> a.neg, mag |-> Round53(FixSub(a.mag, b.mag), FALSE)]

\* a >= 0
NumNonNegative(a) == ~a.neg \/ a.mag = FixZero

(***************************************************************************)
(* Time arithmetic.                                                        *)
(***************************************************************************)
MinutesPerDay == 1440

\* the mutant drops the overnight wrap
minutesBetween_nowrap(start, end) ==
  LET startMin == ToNumber(Split(start, ":")[1]) * 60 + ToNumber(Split(start, ":")[2])
      endMinRaw == ToNumber(Split(end, ":")[1]) * 60 + ToNumber(Split(end, ":")[2])
  IN Max(endMinRaw - startMin, 0)

\* the mutant wraps an end that equals the start as well
WrappedDifference_wrapOnEqual(start, end) ==
  LET startMin == ToNumber(Split(start, ":")[1]) * 60 + ToNumber(Split(start, ":")[2])
      endMinRaw == ToNumber(Split(end, ":")[1]) * 60 + ToNumber(Split(end, ":")[2])
      endMin == IF endMinRaw <= startMin THEN endMinRaw + 24 * 60 ELSE endMinRaw
  IN endMin - startMin

\* endMin - startMin, the difference that minutesBetween hands to Math.max
WrappedDifference(start, end) ==
  LET sh == ToNumber(Split(start, ":")[1])
      sm == ToNumber(Split(start, ":")[2])
      eh == ToNumber(Split(end, ":")[1])
      em == ToNumber(Split(end, ":")[2])
      startMin == sh * 60 + sm
      endMinRaw == eh * 60 + em
      endMin == IF endMinRaw < startMin THEN endMinRaw + 24 * 60 ELSE endMinRaw
  IN endMin - startMin

minutesBetween(start, end) == Max(WrappedDifference(start, end), 0)

\* the HH:MM string of hour h and minute m
TimeStr(h, m) == PadStart2(ToStr(h)) \o <<":">> \o PadStart2(ToStr(m))

\* hours and minutes of the times of day given to minutesBetween
ClockHours == 0..23

ClockMinutes == {0, 15, 30, 59}

(***************************************************************************)
(* The Date object (ECMAScript time values and their local components).    *)
(***************************************************************************)
\* Day(t) and TimeWithinDay(t), in minutes
Day(t) == t \div MinutesPerDay

TimeWithinDay(t) == t % MinutesPerDay

\* number of the first day of year y, counted from 1970-01-01
DayFromYear(y) ==
  365 * (y - 1970) + ((y - 1969) \div 4) - ((y - 1901) \div 100) + ((y - 1601) \div 400)

DaysInYear(y) == DayFromYear(y + 1) - DayFromYear(y)

\* the year that holds day number d
YearFromDay(d) ==
  LET guess == 1970 + (d \div 366)
  IN CHOOSE y \in (guess - 1)..(guess + 2) : DayFromYear(y) <= d /\ d < DayFromYear(y + 1)

\* day number within the year of the first day of month m (0..11), and of
\* the day after the year's last (m = 12)
MonthStart(y, m) ==
  LET leap == IF DaysInYear(y) = 366 THEN 1 ELSE 0
      base == <<0, 31, 59, 90, 120, 151, 181, 212, 243, 273, 304, 334, 365>>
  IN IF m <= 1 THEN base[m + 1] ELSE base[m + 1] + leap

\* month (0..11) and day of the month (1..31) of day number d
MonthFromDay(d) ==
  LET y == YearFromDay(d)
      dy == d - DayFromYear(y)
  IN CHOOSE m \in 0..11 : MonthStart(y, m) <= dy /\ dy < MonthStart(y, m + 1)

DateFromDay(d) ==
  LET y == YearFromDay(d)
  IN d - DayFromYear(y) - MonthStart(y, MonthFromDay(d)) + 1

\* MakeDay(year, month, date): month and date may lie outside their ranges
MakeDay(year, month, date) ==
  LET ym == year + (month \div 12)
      mn == month % 12
  IN DayFromYear(ym) + MonthStart(ym, mn) + date - 1

LocalTime(t, tz) == t + tz

UTC(t, tz) == t - tz

\* date.getFullYear(), getMonth(), getDate(), getDay()
GetFullYear(t, tz) == YearFromDay(Day(LocalTime(t, tz)))

GetMonth(t, tz) == MonthFromDay(Day(LocalTime(t, tz)))

GetDate(t, tz) == DateFromDay(Day(LocalTime(t, tz)))

GetDay(t, tz) == (Day(LocalTime(t, tz)) + 4) % 7

\* the mutant strips the time of day of the UTC date
SetHoursZero_utc(t, tz) == Day(t) * MinutesPerDay

\* date.setHours(0, 0, 0, 0)
SetHoursZero(t, tz) == UTC(Day(LocalTime(t, tz)) * MinutesPerDay, tz)

\* new Date(year, month, date): local midnight
NewDateYMD(year, month, date, tz) == UTC(MakeDay(year, month, date) * MinutesPerDay, tz)

\* date.setDate(n): the local time of day is kept
SetDate(t, n, tz) ==
  UTC(MakeDay(GetFullYear(t, tz), GetMonth(t, tz), n) * MinutesPerDay
      + TimeWithinDay(LocalTime(t, tz)), tz)

\* date.setMonth(m): the local day of the month and time of day are kept
SetMonth(t, m, tz) ==
  UTC(MakeDay(GetFullYear(t, tz), m, GetDate(t, tz)) * MinutesPerDay
      + TimeWithinDay(LocalTime(t, tz)), tz)

\* new Date('YYYY-MM-DD'): a date-only string is read as UTC midnight
NewDateFromString(s, tz) ==
  LET parts == Split(s, "-")
  IN MakeDay(ToNumber(parts[1]), ToNumber(parts[2]) - 1, ToNumber(parts[3])) * MinutesPerDay

\* the mutant formats the UTC date
iso_utc(date, tz) ==
  LET year == GetFullYear(date, 0)
      month == PadStart2(ToStr(GetMonth(date, 0) + 1))
      day == PadStart2(ToStr(GetDate(date, 0)))
  IN ToStr(year) \o <<"-">> \o month \o <<"-">> \o day

iso(date, tz) ==
  LET year == GetFullYear(date, tz)
      month == PadStart2(ToStr(GetMonth(date, tz) + 1))
      day == PadStart2(ToStr(GetDate(date, tz)))
  IN ToStr(year) \o <<"-">> \o month \o <<"-">> \o day

(***************************************************************************)
(* Period resolver and navigator.                                          *)
(***************************************************************************)
WeekStarts == {"sunday", "monday", "tuesday", "wednesday", "thursday", "friday", "saturday"}

WeekStartMap == [sunday |-> 0, monday |-> 1, tuesday |-> 2, wednesday |-> 3,
                 thursday |-> 4, friday |-> 5, saturday |-> 6]

\* the mutant ends the week seven days after its start
weeklyRange_eightDays(config, today, tz) ==
  LET start == SetDate(today, GetDate(today, tz)
                 - ((GetDay(today, tz) - WeekStartMap[config.weekStart] + 7) % 7), tz)
  IN [start |-> iso(start, tz), end |-> iso(SetDate(start, GetDate(start, tz) + 7, tz), tz)]

weeklyRange(config, today, tz) ==
  LET target == WeekStartMap[config.weekStart]
      current == GetDay(today, tz)
      diff == (current - target + 7) % 7
      start == SetDate(today, GetDate(today, tz) - diff, tz)
      end == SetDate(start, GetDate(start, tz) + 6, tz)
  IN [start |-> iso(start, tz), end |-> iso(end, tz)]

\* the mutant takes a fixed month length of 30 days
monthlyRange_thirty(today, tz) ==
  [start |-> iso(NewDateYMD(GetFullYear(today, tz), GetMonth(today, tz), 1, tz), tz),
   end |-> iso(NewDateYMD(GetFullYear(today, tz), GetMonth(today, tz), 30, tz), tz)]

monthlyRange(today, tz) ==
  LET start == NewDateYMD(GetFullYear(today, tz), GetMonth(today, tz), 1, tz)
      end == NewDateYMD(GetFullYear(today, tz), GetMonth(today, tz) + 1, 0, tz)
  IN [start |-> iso(start, tz), end |-> iso(end, tz)]

\* the mutant resolves a custom period like a monthly one
getPeriodRange_customMonthly(config, todayInput, tz) ==
  IF config.period = "weekly"
  THEN weeklyRange(config, SetHoursZero(todayInput, tz), tz)
  ELSE monthlyRange(SetHoursZero(todayInput, tz), tz)

getPeriodRange(config, todayInput, tz) ==
  LET today == SetHoursZero(todayInput, tz)
  IN IF config.period = "monthly" THEN monthlyRange(today, tz)
     ELSE IF config.period = "weekly" THEN weeklyRange(config, today, tz)
     ELSE NULL

\* the mutant ends a week six days before its start
getPeriodByOffset_endBefore(config, offset, todayInput, tz) ==
  LET base == getPeriodRange(config, todayInput, tz)
  IN IF base = NULL THEN NULL
     ELSE IF config.period = "weekly"
     THEN LET start0 == NewDateFromString(base.start, tz)
              start == SetDate(start0, GetDate(start0, tz) + offset * 7, tz)
              end == SetDate(start, GetDate(start, tz) - 6, tz)
          IN [start |-> iso(start, tz), end |-> iso(end, tz)]
     ELSE IF config.period = "monthly"
     THEN LET start0 == NewDateFromString(base.start, tz)
              start == SetMonth(start0, GetMonth(start0, tz) + offset, tz)
              end == NewDateYMD(GetFullYear(start, tz), GetMonth(start, tz) + 1, 0, tz)
          IN [start |-> iso(start, tz), end |-> iso(end, tz)]
     ELSE base

getPeriodByOffset(config, offset, todayInput, tz) ==
  LET base == getPeriodRange(config, todayInput, tz)
  IN IF base = NULL THEN NULL
     ELSE IF config.period = "weekly"
     THEN LET start0 == NewDateFromString(base.start, tz)
              start == SetDate(start0, GetDate(start0, tz) + offset * 7, tz)
              end == SetDate(start, GetDate(start, tz) + 6, tz)
          IN [start |-> iso(start, tz), end |-> iso(end, tz)]
     ELSE IF config.period = "monthly"
     THEN LET start0 == NewDateFromString(base.start, tz)
              start == SetMonth(start0, GetMonth(start0, tz) + offset, tz)
              end == NewDateYMD(GetFullYear(start, tz), GetMonth(start, tz) + 1, 0, tz)
          IN [start |-> iso(start, tz), end |-> iso(end, tz)]
     ELSE base

(***************************************************************************)
(* Aggregator.                                                             *)
(***************************************************************************)
\* const source = periodRange ? shifts.filter(...) : shifts, in calculateTotals
TotalsSource(list, periodRange) ==
  IF periodRange # NULL
  THEN SelectSeq(list, LAMBDA shift : StrGE(shift.date, periodRange.start)
                                        /\ StrLE(shift.date, periodRange.end))
  ELSE list

\* the mutant leaves out the clamp of the worked minutes
TotalsStep_unclamped(acc, shift) ==
  LET workMinutes == minutesBetween(shift.start, shift.end) - shift.lunchMinutes
  IN [pay |-> NumPlus(acc.pay, NumTimes(NumDivSixty(workMinutes), shift.hourlyRate)),
      durationMinutes |-> acc.durationMinutes + workMinutes]

\* the reducer of calculateTotals
TotalsStep(acc, shift) ==
  LET workMinutes == minutesBetween(shift.start, shift.end) - shift.lunchMinutes
      safeMinutes == Max(workMinutes, 0)
      hours == NumDivSixty(safeMinutes)
  IN [pay |-> NumPlus(acc.pay, NumTimes(hours, shift.hourlyRate)),
      durationMinutes |-> acc.durationMinutes + safeMinutes]

\* source.reduce(step, acc), from the left
RECURSIVE ReduceTotals(_, _)
ReduceTotals(src, acc) ==
  IF src = <<>> THEN acc ELSE ReduceTotals(Tail(src), TotalsStep(acc, Head(src)))

calculateTotals(list, periodRange) ==
  ReduceTotals(TotalsSource(list, periodRange), [pay |-> NumZero, durationMinutes |-> 0])

\* the mutant excludes the last day of the range
GroupSource_endExclusive(list, periodRange) ==
  IF periodRange # NULL
  THEN SelectSeq(list, LAMBDA shift : StrGE(shift.date, periodRange.start)
                                        /\ StrLT(shift.date, periodRange.end))
  ELSE list

\* const source = periodRange ? shifts.filter(...) : shifts, in groupShiftsByDay
GroupSource(list, periodRange) ==
  IF periodRange # NULL
  THEN SelectSeq(list, LAMBDA shift : StrGE(shift.date, periodRange.start)
                                        /\ StrLE(shift.date, periodRange.end))
  ELSE list

\* the mutant finds no entry, so that a day keeps its last shift only
MapGet_empty(map, date) == [durationMinutes |-> 0, pay |-> NumZero]

\* map.get(date) ?? { durationMinutes: 0, pay: 0 }; the Map is the sequence
\* of its entries in insertion order
MapGet(map, date) ==
  IF \E i \in 1..Len(map) : map[i].date = date
  THEN LET i == CHOOSE k \in 1..Len(map) : map[k].date = date
       IN [durationMinutes |-> map[i].durationMinutes, pay |-> map[i].pay]
  ELSE [durationMinutes |-> 0, pay |-> NumZero]

\* map.set(date, values): an existing key keeps its place
MapSet(map, date, values) ==
  LET entry == [date |-> date, durationMinutes |-> values.durationMinutes, pay |-> values.pay]
  IN IF \E i \in 1..Len(map) : map[i].date = date
     THEN [i \in 1..Len(map) |-> IF map[i].date = date THEN entry ELSE map[i]]
     ELSE Append(map, entry)

\* the mutant adds the worked minutes as they are, negative or not
GroupStep_unclamped(map, shift) ==
  LET existing == MapGet(map, shift.date)
      workMinutes == minutesBetween(shift.start, shift.end) - shift.lunchMinutes
      hours == NumDivSixty(workMinutes)
  IN MapSet(map, shift.date,
            [durationMinutes |-> existing.durationMinutes + workMinutes,
             pay |-> NumPlus(existing.pay, NumTimes(hours, shift.hourlyRate))])

\* the body of source.forEach in groupShiftsByDay
GroupStep(map, shift) ==
  LET existing == MapGet(map, shift.date)
      workMinutes == minutesBetween(shift.start, shift.end) - shift.lunchMinutes
      safeMinutes == Max(workMinutes, 0)
      hours == NumDivSixty(safeMinutes)
  IN MapSet(map, shift.date,
            [durationMinutes |-> existing.durationMinutes + safeMinutes,
             pay |-> NumPlus(existing.pay, NumTimes(hours, shift.hourlyRate))])

RECURSIVE FillMap(_, _)
FillMap(src, map) ==
  IF src = <<>> THEN map ELSE FillMap(Tail(src), GroupStep(map, Head(src)))

\* the mutant compares in ascending order
DayCompare_ascending(a, b) == LocaleCompare(a.date, b.date)

\* the comparator (a, b) => b.date.localeCompare(a.date)
DayCompare(a, b) == LocaleCompare(b.date, a.date)

\* insertion of x into a sequence sorted by DayCompare, after its equals
RECURSIVE SortInsert(_, _)
SortInsert(sorted, x) ==
  IF sorted = <<>> THEN <<x>>
  ELSE IF DayCompare(Head(sorted), x) <= 0 THEN <<Head(sorted)>> \o SortInsert(Tail(sorted), x)
  ELSE <<x>> \o sorted

\* Array.prototype.sort with the comparator (a stable sort)
RECURSIVE SortDays(_)
SortDays(days) ==
  IF days = <<>> THEN <<>>
  ELSE SortInsert(SortDays(SubSeq(days, 1, Len(days) - 1)), days[Len(days)])

\* the mutant sorts source in place, which is the caller's array when
\* periodRange is null
SortInPlace_source(array, aliased, days) ==
  [shifts |-> IF aliased THEN SortDays(array) ELSE array, days |-> SortDays(days)]

\* .sort() reorders its receiver in place: the receiver is the array that
\* [...map.entries()].map(...) built, not source; array is the caller's
\* collection and aliased tells that source is that very array
SortInPlace(array, aliased, days) == [shifts |-> array, days |-> SortDays(days)]

\* the arrays as a call of groupShiftsByDay leaves them
groupShiftsByDayArrays(array, periodRange) ==
  SortInPlace(array, periodRange = NULL, FillMap(GroupSource(array, periodRange), <<>>))

groupShiftsByDay(array, periodRange) == groupShiftsByDayArrays(array, periodRange).days

(***************************************************************************)
(* Inputs.                                                                 *)
(***************************************************************************)
\* the YYYY-MM-DD string of a calendar date
DateStr(y, m, d) == ToStr(y) \o <<"-">> \o PadStart2(ToStr(m)) \o <<"-">> \o PadStart2(ToStr(d))

\* calendar facts used to draw inputs and to state the properties
IsLeapYear(y) == (y % 4 = 0 /\ y % 100 # 0) \/ y % 400 = 0

DaysInMonth(y, m) ==
  IF m = 2 THEN (IF IsLeapYear(y) THEN 29 ELSE 28)
  ELSE IF m \in {4, 6, 9, 11} THEN 30 ELSE 31

FirstRefYear == 2024

RefYears == FirstRefYear..(FirstRefYear + NumRefYears - 1)

\* local calendar dates of the reference instant
RefDates ==
  {[y |-> y, m |-> m, d |-> d] : y \in RefYears, m \in 1..12, d \in {1, 15}}
  \cup {[y |-> y, m |-> m, d |-> DaysInMonth(y, m)] : y \in RefYears, m \in 1..12}

\* local times of day of the reference instant, in minutes
RefClock == {0, 1439}

\* zones of the host, in minutes east of UTC
TimeZones == {-300, 0, 600}

\* the instant at which the local calendar of zone tz shows date and clock
InstantOf(date, clock, tz) ==
  LET y1 == date.y - 1
      days == 365 * y1 + (y1 \div 4) - (y1 \div 100) + (y1 \div 400) - 719162
              + date.d - 1
      RECURSIVE Before(_)
      Before(m) == IF m = 1 THEN 0 ELSE Before(m - 1) + DaysInMonth(date.y, m - 1)
  IN (days + Before(date.m)) * MinutesPerDay + clock - tz

INITIAL_HOURLY_RATE == 25

AllSettings ==
  {[period |-> "weekly", weekStart |-> ws, hourlyRate |-> INITIAL_HOURLY_RATE] : ws \in WeekStarts}
  \cup {[period |-> p, weekStart |-> "monday", hourlyRate |-> INITIAL_HOURLY_RATE] :
          p \in {"monthly", "custom"}}

Offsets == (-MaxOffset)..MaxOffset

ShiftDates == {DateStr(2025, 1, 10), DateStr(2025, 1, 13), DateStr(2025, 1, 14)}

\* start, end, lunchMinutes and hourlyRate of the shifts of the collections
ShiftWork ==
  {[start |-> TimeStr(22, 0), end |-> TimeStr(6, 0), lunchMinutes |-> 30, hourlyRate |-> 20],
   [start |-> TimeStr(9, 0), end |-> TimeStr(17, 0), lunchMinutes |-> 60, hourlyRate |-> 25],
   [start |-> TimeStr(9, 0), end |-> TimeStr(9, 30), lunchMinutes |-> 45, hourlyRate |-> 30]}

ShiftPool ==
  {[date |-> dt, start |-> w.start, end |-> w.end, lunchMinutes |-> w.lunchMinutes,
    comment |-> "", hourlyRate |-> w.hourlyRate] : dt \in ShiftDates, w \in ShiftWork}

\* collections of 0..MaxShifts shifts, the id of a shift being its position
ShiftCollections ==
  UNION {{[i \in 1..n |->
             [id |-> ToStr(i), date |-> f[i].date, start |-> f[i].start, end |-> f[i].end,
              lunchMinutes |-> f[i].lunchMinutes, comment |-> f[i].comment,
              hourlyRate |-> f[i].hourlyRate]] : f \in [1..n -> ShiftPool]} : n \in 0..MaxShifts}

PeriodRanges ==
  {NULL,
   [start |-> DateStr(2025, 1, 13), end |-> DateStr(2025, 1, 19)],
   [start |-> DateStr(2025, 1, 13), end |-> DateStr(2025, 1, 14)],
   [start |-> DateStr(2024, 12, 30), end |-> DateStr(2025, 1, 10)],
   [start |-> DateStr(2025, 1, 15), end |-> DateStr(2025, 1, 21)]}

\* the shifts of the report screen: short shifts whose pay, 5/60 * 25 and
\* 15/60 * 25 and 40/60 * 20, is not always a binary fraction
ReportWork ==
  {[start |-> TimeStr(9, 0), end |-> TimeStr(9, 35), lunchMinutes |-> 30, hourlyRate |-> 25],
   [start |-> TimeStr(9, 0), end |-> TimeStr(9, 45), lunchMinutes |-> 30, hourlyRate |-> 25],
   [start |-> TimeStr(23, 30), end |-> TimeStr(0, 10), lunchMinutes |-> 0, hourlyRate |-> 20]}

ReportPool ==
  {[date |-> dt, start |-> w.start, end |-> w.end, lunchMinutes |-> w.lunchMinutes,
    comment |-> "", hourlyRate |-> w.hourlyRate] :
     dt \in {DateStr(2025, 1, 13), DateStr(2025, 1, 14)}, w \in ReportWork}

ReportCollections ==
  UNION {{[i \in 1..n |->
             [id |-> ToStr(i), date |-> f[i].date, start |-> f[i].start, end |-> f[i].end,
              lunchMinutes |-> f[i].lunchMinutes, comment |-> f[i].comment,
              hourlyRate |-> f[i].hourlyRate]] : f \in [1..n -> ReportPool]} : n \in 0..MaxShifts}

(***************************************************************************)
(* The application: constants and derived values of App.tsx.               *)
(***************************************************************************)
\* the moment and the zone in which the application runs
HostZone == 600

\* new Date(): 09:00 of 2025-07-21 in the host's zone, day 20290 since 1970
Now == 20290 * MinutesPerDay + 540 - HostZone

\* text.trim()
RECURSIVE TrimStart(_)
TrimStart(text) ==
  IF text # <<>> /\ Head(text) = " " THEN TrimStart(Tail(text)) ELSE text

RECURSIVE TrimEnd(_)
TrimEnd(text) ==
  IF text # <<>> /\ text[Len(text)] = " " THEN TrimEnd(SubSeq(text, 1, Len(text) - 1)) ELSE text

Trim(text) == TrimEnd(TrimStart(text))

\* today.toISOString().slice(0, 10): the UTC date
ToISODate(date) ==
  ToStr(GetFullYear(date, 0)) \o <<"-">> \o PadStart2(ToStr(GetMonth(date, 0) + 1))
    \o <<"-">> \o PadStart2(ToStr(GetDate(date, 0)))

\* the seeded shifts (their comments abridged to Latin letters)
initialShifts ==
  <<[id |-> <<"1">>, date |-> DateStr(2025, 7, 21), start |-> TimeStr(9, 0),
     end |-> TimeStr(17, 30), lunchMinutes |-> 60, comment |-> <<"o", "f", "f", "i", "c", "e">>,
     hourlyRate |-> INITIAL_HOURLY_RATE],
    [id |-> <<"2">>, date |-> DateStr(2025, 7, 20), start |-> TimeStr(10, 0),
     end |-> TimeStr(18, 15), lunchMinutes |-> 45, comment |-> <<>>,
     hourlyRate |-> INITIAL_HOURLY_RATE],
    [id |-> <<"3">>, date |-> DateStr(2025, 7, 19), start |-> TimeStr(8, 30),
     end |-> TimeStr(16, 0), lunchMinutes |-> 30, comment |-> <<"r", "e", "m", "o", "t", "e">>,
     hourlyRate |-> INITIAL_HOURLY_RATE]>>

emptyForm ==
  [date |-> ToISODate(Now), start |-> TimeStr(7, 0), end |-> TimeStr(17, 0),
   lunchMinutes |-> 30, comment |-> <<>>]

DEFAULT_SETTINGS ==
  [period |-> "weekly", weekStart |-> "monday", hourlyRate |-> INITIAL_HOURLY_RATE,
   userEmail |-> <<>>, accountantEmail |-> <<>>]

DEFAULT_INVOICE_PROFILE ==
  [fullName |-> <<>>, address |-> <<>>, abn |-> <<>>, speciality |-> <<>>,
   accountBankName |-> <<>>, bsb |-> <<>>, accountNumber |-> <<>>, nextInvoiceNumber |-> 1]

\* the messages of window.alert
SaveAlert == "End time must be after start time (minus lunch)."

PeriodAlert == "Select a reporting period first."

DetailsAlert == "Fill invoice details first (Full Name and Account number at minimum)."

InvoiceAlert == "Failed to generate invoice. See console for details."

\* the memoized values of a render of App
ReportRange(config, offset) == getPeriodByOffset(config, offset, Now, HostZone)

ReportTotals(list, config, offset) == calculateTotals(list, ReportRange(config, offset))

hasInvoiceCoreFields(profile) ==
  Trim(profile.fullName) # <<>> /\ Trim(profile.accountNumber) # <<>>

\* the load effect once it has ended: it keeps nothing of what it read
Loaded == [pc |-> "done", shiftRows |-> <<>>, settingsRow |-> NULL, invoiceRow |-> NULL]

\* a modal with a backdrop is open: clicks outside it go to its backdrop
ModalOpen ==
  isAddOpen \/ isInvoiceScreenOpen \/ showEmailPrompt \/ isSettingsOpen \/ isInvoiceModalOpen

(***************************************************************************)
(* The calls.  Each behaviour makes one call of one operation of the       *)
(* engine; op names it, args holds its arguments as they were given,       *)
(* source the filtered collection of an aggregation, result the value      *)
(* returned and shifts the caller's collection as the call leaves it.      *)
(***************************************************************************)
\* no call made yet; the application has the initial values of its state
\* hooks and an empty database
Init ==
  /\ op = "init"
  /\ args = NULL
  /\ source = <<>>
  /\ result = NULL
  /\ shifts = <<>>
  /\ dbShifts = {}
  /\ settings = DEFAULT_SETTINGS
  /\ form = emptyForm
  /\ editingId = NULL
  /\ isAddOpen = FALSE
  /\ uuids = 0
  /\ saves = <<>>
  /\ alertMessage = NULL
  /\ activeView = "home"
  /\ periodOffset = 0
  /\ invoiceProfile = DEFAULT_INVOICE_PROFILE
  /\ invoiceDraft = DEFAULT_INVOICE_PROFILE
  /\ dbInvoiceProfile = NULL
  /\ invoiceForm = [invoiceNumber |-> 1, rate |-> INITIAL_HOURLY_RATE, durationMinutes |-> 0,
                    total |-> NumZero]
  /\ isInvoiceScreenOpen = FALSE
  /\ isInvoiceEditing = FALSE
  /\ showEmailPrompt = FALSE
  /\ lastInvoiceNumber = NULL
  /\ invoices = <<>>
  /\ settingsDraft = DEFAULT_SETTINGS
  /\ isSettingsOpen = FALSE
  /\ dbSettings = NULL
  /\ settingsSaves = <<>>
  /\ isInvoiceModalOpen = FALSE
  /\ profileSaves = <<>>
  /\ deletes = <<>>
  /\ load = [pc |-> "read", shiftRows |-> <<>>, settingsRow |-> NULL, invoiceRow |-> NULL]

MinutesBetween ==
  /\ op = "init"
  /\ UNCHANGED appVars
  /\ \E sh \in ClockHours, sm \in ClockMinutes, eh \in ClockHours, em \in ClockMinutes :
       /\ op' = "minutesBetween"
       /\ args' = [start |-> TimeStr(sh, sm), end |-> TimeStr(eh, em),
                   startClock |-> [h |-> sh, m |-> sm], endClock |-> [h |-> eh, m |-> em]]
       /\ source' = <<>>
       /\ result' = minutesBetween(TimeStr(sh, sm), TimeStr(eh, em))
       /\ UNCHANGED shifts

GetPeriodRange ==
  /\ op = "init"
  /\ UNCHANGED appVars
  /\ \E config \in AllSettings, date \in RefDates, clock \in RefClock, tz \in TimeZones :
       LET todayInput == InstantOf(date, clock, tz)
       IN /\ op' = "getPeriodRange"
          /\ args' = [settings |-> config, local |-> date, clock |-> clock, tz |-> tz,
                      todayInput |-> todayInput]
          /\ source' = <<>>
          /\ result' = getPeriodRange(config, todayInput, tz)
          /\ UNCHANGED shifts

GetPeriodByOffset ==
  /\ op = "init"
  /\ UNCHANGED appVars
  /\ \E config \in AllSettings, offset \in Offsets, date \in RefDates,
        clock \in RefClock, tz \in TimeZones :
       LET todayInput == InstantOf(date, clock, tz)
       IN /\ op' = "getPeriodByOffset"
          /\ args' = [settings |-> config, offset |-> offset, local |-> date,
                      clock |-> clock, tz |-> tz, todayInput |-> todayInput]
          /\ source' = <<>>
          /\ result' = getPeriodByOffset(config, offset, todayInput, tz)
          /\ UNCHANGED shifts

\* filter and reduce build new values and the reducer writes to acc only,
\* the object literal given as the initial value
CalculateTotals ==
  /\ op = "init"
  /\ UNCHANGED appVars
  /\ \E array \in ShiftCollections, periodRange \in PeriodRanges :
       /\ op' = "calculateTotals"
       /\ args' = [shifts |-> array, periodRange |-> periodRange]
       /\ source' = TotalsSource(array, periodRange)
       /\ result' = calculateTotals(array, periodRange)
       /\ shifts' = array

GroupShiftsByDay ==
  /\ op = "init"
  /\ UNCHANGED appVars
  /\ \E array \in ShiftCollections, periodRange \in PeriodRanges :
       /\ op' = "groupShiftsByDay"
       /\ args' = [shifts |-> array, periodRange |-> periodRange]
       /\ source' = GroupSource(array, periodRange)
       /\ result' = groupShiftsByDay(array, periodRange)
       /\ shifts' = groupShiftsByDayArrays(array, periodRange).shifts

\* the report screen computes reportDays and reportTotals from the same
\* shifts and the same reportRange
Report ==
  /\ op = "init"
  /\ UNCHANGED appVars
  /\ \E array \in ReportCollections, reportRange \in PeriodRanges :
       /\ op' = "report"
       /\ args' = [shifts |-> array, periodRange |-> reportRange]
       /\ source' = GroupSource(array, reportRange)
       /\ result' = [reportDays |-> groupShiftsByDay(array, reportRange),
                     reportTotals |-> calculateTotals(array, reportRange)]
       /\ shifts' = groupShiftsByDayArrays(array, reportRange).shifts

(***************************************************************************)
(* The invoice screen (App.tsx).  window.alert blocks the page until its   *)
(* dialog is dismissed; a modal's backdrop takes the clicks outside it.    *)
(***************************************************************************)
\* saveInvoicePdf invocations are numbered 1..MaxInvoices
InvoiceIds == 1..MaxInvoices

\* values typed into the invoice form in edit mode
TypedInvoiceNumbers == {5}

TypedRates == {30}

TypedTotals == {NumOfInt(100)}

\* profiles stored by an earlier session
StoredProfiles ==
  {DEFAULT_INVOICE_PROFILE,
   [DEFAULT_INVOICE_PROFILE EXCEPT !.fullName = <<"A", "n", "n">>, !.accountNumber = <<"7">>,
                                   !.speciality = <<"c", "a", "r", "e">>,
                                   !.nextInvoiceNumber = 3]}

StoredSettings == {DEFAULT_SETTINGS, [DEFAULT_SETTINGS EXCEPT !.period = "custom"]}

\* the application on its reports view, once the data of an earlier session
\* (the seeded shifts, the settings and an invoice profile) have been loaded
InitInvoice ==
  /\ op = "init"
  /\ args = NULL
  /\ source = <<>>
  /\ result = NULL
  /\ shifts = initialShifts
  /\ dbShifts = {initialShifts[i] : i \in 1..Len(initialShifts)}
  /\ settings \in StoredSettings
  /\ form = emptyForm
  /\ editingId = NULL
  /\ isAddOpen = FALSE
  /\ uuids = 0
  /\ saves = <<>>
  /\ alertMessage = NULL
  /\ activeView = "reports"
  /\ periodOffset = 0
  /\ invoiceProfile \in StoredProfiles
  /\ invoiceDraft = invoiceProfile
  /\ dbInvoiceProfile = invoiceProfile
  /\ invoiceForm = [invoiceNumber |-> 1, rate |-> INITIAL_HOURLY_RATE, durationMinutes |-> 0,
                    total |-> NumZero]
  /\ isInvoiceScreenOpen = FALSE
  /\ isInvoiceEditing = FALSE
  /\ showEmailPrompt = FALSE
  /\ lastInvoiceNumber = NULL
  /\ invoices = <<>>
  /\ settingsDraft = settings
  /\ isSettingsOpen = FALSE
  /\ dbSettings = settings
  /\ settingsSaves = <<>>
  /\ isInvoiceModalOpen = FALSE
  /\ profileSaves = <<>>
  /\ deletes = <<>>
  /\ load = Loaded

\* the dialog of window.alert is closed
DismissAlert ==
  /\ alertMessage # NULL
  /\ alertMessage' = NULL
  /\ UNCHANGED <<op, callVars, pageVars, shifts, formVars, invoiceVars>>

OpenReports ==
  /\ alertMessage = NULL /\ ~ModalOpen
  /\ activeView' = "reports"
  /\ periodOffset' = 0
  /\ UNCHANGED <<op, callVars, pageVars, shifts, formVars, alertMessage, invoiceProfile, invoiceDraft,
                 dbInvoiceProfile, invoiceForm, isInvoiceScreenOpen, isInvoiceEditing,
                 showEmailPrompt, lastInvoiceNumber, invoices>>

\* the Create invoice button of the reports view, enabled when the profile
\* has its core fields and the report has days
OpenInvoiceScreen ==
  /\ alertMessage = NULL /\ ~ModalOpen
  /\ activeView = "reports"
  /\ hasInvoiceCoreFields(invoiceProfile)
  /\ \E reportRange \in {ReportRange(settings, periodOffset)} :
       /\ groupShiftsByDay(shifts, reportRange) # <<>>
       /\ IF reportRange = NULL
          THEN /\ alertMessage' = [message |-> PeriodAlert]
               /\ UNCHANGED <<invoiceForm, isInvoiceEditing, showEmailPrompt,
                              isInvoiceScreenOpen>>
          ELSE IF ~hasInvoiceCoreFields(invoiceProfile)
          THEN /\ alertMessage' = [message |-> DetailsAlert]
               /\ UNCHANGED <<invoiceForm, isInvoiceEditing, showEmailPrompt,
                              isInvoiceScreenOpen>>
          ELSE /\ \E reportTotals \in {calculateTotals(shifts, reportRange)} :
                    invoiceForm' = [invoiceNumber |-> invoiceProfile.nextInvoiceNumber,
                                    rate |-> settings.hourlyRate,
                                    durationMinutes |-> reportTotals.durationMinutes,
                                    total |-> reportTotals.pay]
               /\ isInvoiceEditing' = FALSE
               /\ showEmailPrompt' = FALSE
               /\ isInvoiceScreenOpen' = TRUE
               /\ UNCHANGED alertMessage
  /\ UNCHANGED <<op, callVars, pageVars, shifts, formVars, activeView, periodOffset, invoiceProfile,
                 invoiceDraft, dbInvoiceProfile, lastInvoiceNumber, invoices>>

CloseInvoiceScreen ==
  /\ alertMessage = NULL /\ isInvoiceScreenOpen
  /\ isInvoiceScreenOpen' = FALSE
  /\ isInvoiceEditing' = FALSE
  /\ showEmailPrompt' = FALSE
  /\ UNCHANGED <<op, callVars, pageVars, shifts, formVars, alertMessage, activeView, periodOffset,
                 invoiceProfile, invoiceDraft, dbInvoiceProfile, invoiceForm,
                 lastInvoiceNumber, invoices>>

\* the Edit / Lock button of the invoice screen
ToggleInvoiceEditing ==
  /\ alertMessage = NULL /\ isInvoiceScreenOpen
  /\ isInvoiceEditing' = ~isInvoiceEditing
  /\ UNCHANGED <<op, callVars, pageVars, shifts, formVars, alertMessage, activeView, periodOffset,
                 invoiceProfile, invoiceDraft, dbInvoiceProfile, invoiceForm,
                 isInvoiceScreenOpen, showEmailPrompt, lastInvoiceNumber, invoices>>

\* the inputs of the invoice screen, disabled unless isInvoiceEditing; the
\* Total duration input is always disabled
EditInvoiceForm ==
  /\ alertMessage = NULL /\ isInvoiceScreenOpen /\ isInvoiceEditing
  /\ \/ \E typed \in TypedInvoiceNumbers :
          invoiceForm' = [invoiceForm EXCEPT !.invoiceNumber = Max(1, IF typed # 0 THEN typed ELSE 1)]
     \/ \E typed \in TypedRates : invoiceForm' = [invoiceForm EXCEPT !.rate = typed]
     \/ \E typed \in TypedTotals : invoiceForm' = [invoiceForm EXCEPT !.total = typed]
  /\ UNCHANGED <<op, callVars, pageVars, shifts, formVars, alertMessage, activeView, periodOffset,
                 invoiceProfile, invoiceDraft, dbInvoiceProfile, isInvoiceScreenOpen,
                 isInvoiceEditing, showEmailPrompt, lastInvoiceNumber, invoices>>

\* the Close button and the backdrop of the Send invoice prompt
CloseEmailPrompt ==
  /\ alertMessage = NULL /\ showEmailPrompt
  /\ showEmailPrompt' = FALSE
  /\ activeView' = "home"
  /\ UNCHANGED <<op, callVars, pageVars, shifts, formVars, alertMessage, periodOffset, invoiceProfile,
                 invoiceDraft, dbInvoiceProfile, invoiceForm, isInvoiceScreenOpen,
                 isInvoiceEditing, lastInvoiceNumber, invoices>>

\* the mutant passes the duration in whole hours
InvoiceParams_hours(profile, period, values) ==
  [profile |-> profile, period |-> period, invoiceNumber |-> values.invoiceNumber,
   itemLabel |-> IF profile.speciality # <<>> THEN profile.speciality
                 ELSE <<"S", "e", "r", "v", "i", "c", "e">>,
   unitPrice |-> values.rate, quantityMinutes |-> values.durationMinutes \div 60,
   subtotal |-> values.total, gst |-> 0, balanceDue |-> values.total]

\* the argument of generateInvoicePdf in saveInvoicePdf; values is invoiceForm
InvoiceParams(profile, period, values) ==
  [profile |-> profile, period |-> period, invoiceNumber |-> values.invoiceNumber,
   itemLabel |-> IF profile.speciality # <<>> THEN profile.speciality
                 ELSE <<"S", "e", "r", "v", "i", "c", "e">>,
   unitPrice |-> values.rate, quantityMinutes |-> values.durationMinutes,
   subtotal |-> values.total, gst |-> 0, balanceDue |-> values.total]

\* nextNumber of saveInvoicePdf
NextNumber(invoiceNumber, profile) ==
  IF invoiceNumber > profile.nextInvoiceNumber
  THEN invoiceNumber + 1
  ELSE profile.nextInvoiceNumber + 1

\* an invocation of saveInvoicePdf that has ended keeps its invoice number
\* and whether it rendered, and nothing of its closure
Ended(invocation, pc) ==
  [pc |-> pc, profile |-> NULL, invoiceNumber |-> invocation.invoiceNumber, params |-> NULL,
   rendered |-> invocation.rendered, updated |-> NULL]

\* the Save button of the invoice screen: saveInvoicePdf up to its first
\* await; the invocation keeps the invoiceProfile, invoiceForm and
\* reportRange of the render in which the button was pressed; the button is
\* pressed at most limit times
SaveInvoicePdfWithin(limit) ==
  /\ alertMessage = NULL /\ isInvoiceScreenOpen
  /\ Len(invoices) < limit
  /\ \E reportRange \in {ReportRange(settings, periodOffset)} :
       IF reportRange = NULL
       THEN UNCHANGED invoices
       ELSE invoices' = Append(invoices,
              [pc |-> "generateInvoicePdf", profile |-> invoiceProfile,
               invoiceNumber |-> invoiceForm.invoiceNumber,
               params |-> InvoiceParams(invoiceProfile, reportRange, invoiceForm),
               rendered |-> FALSE, updated |-> NULL])
  /\ UNCHANGED <<op, callVars, pageVars, shifts, formVars, alertMessage, activeView, periodOffset,
                 invoiceProfile, invoiceDraft, dbInvoiceProfile, invoiceForm,
                 isInvoiceScreenOpen, isInvoiceEditing, showEmailPrompt, lastInvoiceNumber>>

SaveInvoicePdf == SaveInvoicePdfWithin(MaxInvoices)

\* generateInvoicePdf has resolved: saveInvoicePdf up to the await of
\* db.invoiceProfile.put
InvoiceRendered(i) ==
  /\ alertMessage = NULL
  /\ i \in 1..Len(invoices) /\ invoices[i].pc = "generateInvoicePdf"
  /\ LET updated == [invoices[i].profile EXCEPT
                       !.nextInvoiceNumber = NextNumber(invoices[i].invoiceNumber,
                                                        invoices[i].profile)]
     IN /\ invoiceProfile' = updated
        /\ invoiceDraft' = updated
        /\ invoices' = [invoices EXCEPT ![i].pc = "put", ![i].rendered = TRUE,
                                        ![i].updated = updated]
  /\ UNCHANGED <<op, callVars, pageVars, shifts, formVars, alertMessage, activeView, periodOffset,
                 dbInvoiceProfile, invoiceForm, isInvoiceScreenOpen, isInvoiceEditing,
                 showEmailPrompt, lastInvoiceNumber>>

\* generateInvoicePdf has rejected: the catch of saveInvoicePdf
InvoiceRenderFailed(i) ==
  /\ alertMessage = NULL
  /\ i \in 1..Len(invoices) /\ invoices[i].pc = "generateInvoicePdf"
  /\ alertMessage' = [message |-> InvoiceAlert]
  /\ invoices' = [invoices EXCEPT ![i] = Ended(invoices[i], "caught")]
  /\ UNCHANGED <<op, callVars, pageVars, shifts, formVars, activeView, periodOffset, invoiceProfile,
                 invoiceDraft, dbInvoiceProfile, invoiceForm, isInvoiceScreenOpen,
                 isInvoiceEditing, showEmailPrompt, lastInvoiceNumber>>

\* db.invoiceProfile.put has resolved: the rest of saveInvoicePdf, with
\* closeInvoiceScreen
InvoiceProfileStored(i) ==
  /\ alertMessage = NULL
  /\ i \in 1..Len(invoices) /\ invoices[i].pc = "put"
  /\ dbInvoiceProfile' = invoices[i].updated
  /\ lastInvoiceNumber' = [value |-> invoices[i].invoiceNumber]
  /\ isInvoiceScreenOpen' = FALSE
  /\ isInvoiceEditing' = FALSE
  /\ showEmailPrompt' = TRUE
  /\ invoices' = [invoices EXCEPT ![i] = Ended(invoices[i], "returned")]
  /\ UNCHANGED <<op, callVars, pageVars, shifts, formVars, alertMessage, activeView, periodOffset,
                 invoiceProfile, invoiceDraft, invoiceForm>>

\* db.invoiceProfile.put has rejected: the catch of saveInvoicePdf
InvoiceProfileNotStored(i) ==
  /\ alertMessage = NULL
  /\ i \in 1..Len(invoices) /\ invoices[i].pc = "put"
  /\ alertMessage' = [message |-> InvoiceAlert]
  /\ invoices' = [invoices EXCEPT ![i] = Ended(invoices[i], "caught")]
  /\ UNCHANGED <<op, callVars, pageVars, shifts, formVars, activeView, periodOffset, invoiceProfile,
                 invoiceDraft, dbInvoiceProfile, invoiceForm, isInvoiceScreenOpen,
                 isInvoiceEditing, showEmailPrompt, lastInvoiceNumber>>

(***************************************************************************)
(* The shift form (App.tsx).                                               *)
(***************************************************************************)
\* handleSave invocations are numbered 1..MaxSaves
SaveIds == 1..MaxSaves

\* values picked on the wheels of the form
PickedHours == {<<"1", "7">>}

PickedLunch == {<<"1", "2", "0">>}

FormSettings == {DEFAULT_SETTINGS, [DEFAULT_SETTINGS EXCEPT !.hourlyRate = 30]}

\* the application on its home view, once the seeded shifts and the
\* settings of an earlier session have been loaded
InitShiftForm ==
  /\ op = "init"
  /\ args = NULL
  /\ source = <<>>
  /\ result = NULL
  /\ shifts = initialShifts
  /\ dbShifts = {initialShifts[i] : i \in 1..Len(initialShifts)}
  /\ settings \in FormSettings
  /\ form = emptyForm
  /\ editingId = NULL
  /\ isAddOpen = FALSE
  /\ uuids = 0
  /\ saves = <<>>
  /\ alertMessage = NULL
  /\ activeView = "home"
  /\ periodOffset = 0
  /\ invoiceProfile = DEFAULT_INVOICE_PROFILE
  /\ invoiceDraft = DEFAULT_INVOICE_PROFILE
  /\ dbInvoiceProfile = DEFAULT_INVOICE_PROFILE
  /\ invoiceForm = [invoiceNumber |-> 1, rate |-> INITIAL_HOURLY_RATE, durationMinutes |-> 0,
                    total |-> NumZero]
  /\ isInvoiceScreenOpen = FALSE
  /\ isInvoiceEditing = FALSE
  /\ showEmailPrompt = FALSE
  /\ lastInvoiceNumber = NULL
  /\ invoices = <<>>
  /\ settingsDraft = settings
  /\ isSettingsOpen = FALSE
  /\ dbSettings = settings
  /\ settingsSaves = <<>>
  /\ isInvoiceModalOpen = FALSE
  /\ profileSaves = <<>>
  /\ deletes = <<>>
  /\ load = Loaded

\* the Add work time button of the home view
OpenCreate ==
  /\ alertMessage = NULL /\ ~ModalOpen
  /\ activeView = "home"
  /\ editingId' = NULL
  /\ form' = emptyForm
  /\ isAddOpen' = TRUE
  /\ UNCHANGED <<op, callVars, pageVars, shifts, dbShifts, settings, uuids, saves, alertMessage,
                 invoiceVars>>

\* a shift of the list of the home view is opened
OpenEdit ==
  /\ alertMessage = NULL /\ ~ModalOpen
  /\ activeView = "home"
  /\ \E i \in 1..Len(shifts) :
       /\ editingId' = [id |-> shifts[i].id]
       /\ form' = [date |-> shifts[i].date, start |-> shifts[i].start, end |-> shifts[i].end,
                   lunchMinutes |-> shifts[i].lunchMinutes, comment |-> shifts[i].comment]
  /\ isAddOpen' = TRUE
  /\ UNCHANGED <<op, callVars, pageVars, shifts, dbShifts, settings, uuids, saves, alertMessage,
                 invoiceVars>>

\* updateTime(field, 'hour', value)
UpdateTime ==
  /\ alertMessage = NULL /\ isAddOpen
  /\ \E field \in {"start", "end"}, value \in PickedHours :
       LET m == Split(form[field], ":")[2]
       IN form' = [form EXCEPT ![field] = value \o <<":">> \o m]
  /\ UNCHANGED <<op, callVars, pageVars, shifts, dbShifts, settings, editingId, isAddOpen, uuids, saves,
                 alertMessage, invoiceVars>>

\* the wheel of the lunch minutes
SetLunchMinutes ==
  /\ alertMessage = NULL /\ isAddOpen
  /\ \E val \in PickedLunch : form' = [form EXCEPT !.lunchMinutes = ToNumber(val)]
  /\ UNCHANGED <<op, callVars, pageVars, shifts, dbShifts, settings, editingId, isAddOpen, uuids, saves,
                 alertMessage, invoiceVars>>

CloseModal ==
  /\ alertMessage = NULL /\ isAddOpen
  /\ isAddOpen' = FALSE
  /\ editingId' = NULL
  /\ UNCHANGED <<op, callVars, pageVars, shifts, dbShifts, settings, form, uuids, saves, alertMessage,
                 invoiceVars>>

\* the mutant tests the minutes between start and end before the lunch is
\* subtracted
Rejected_beforeLunch(values) == minutesBetween(values.start, values.end) < 0

\* workMinutes < 0 in handleSave
Rejected(values) == minutesBetween(values.start, values.end) - values.lunchMinutes < 0

\* crypto.randomUUID(): an id no shift has yet
RandomUUID(n) == <<"u">> \o ToStr(n)

\* the mutant gives a new shift the initial rate, whatever the settings say
SavedShift_initialRate ==
  IF editingId # NULL
  THEN LET found == {i \in 1..Len(shifts) : shifts[i].id = editingId.id}
           current == IF found # {}
                      THEN shifts[CHOOSE i \in found : \A j \in found : i <= j]
                      ELSE [id |-> editingId.id, date |-> form.date, start |-> form.start,
                            end |-> form.end, lunchMinutes |-> form.lunchMinutes,
                            comment |-> Trim(form.comment), hourlyRate |-> settings.hourlyRate]
       IN [current EXCEPT !.date = form.date, !.start = form.start, !.end = form.end,
                          !.lunchMinutes = form.lunchMinutes, !.comment = Trim(form.comment)]
  ELSE [id |-> RandomUUID(uuids), date |-> form.date, start |-> form.start, end |-> form.end,
        lunchMinutes |-> form.lunchMinutes, comment |-> Trim(form.comment),
        hourlyRate |-> INITIAL_HOURLY_RATE]

\* the mutant gives an edited shift the rate of the settings
SavedShift_settingsRate ==
  IF editingId # NULL
  THEN [id |-> editingId.id, date |-> form.date, start |-> form.start, end |-> form.end,
        lunchMinutes |-> form.lunchMinutes, comment |-> Trim(form.comment),
        hourlyRate |-> settings.hourlyRate]
  ELSE [id |-> RandomUUID(uuids), date |-> form.date, start |-> form.start, end |-> form.end,
        lunchMinutes |-> form.lunchMinutes, comment |-> Trim(form.comment),
        hourlyRate |-> settings.hourlyRate]

\* the shift that handleSave stores
SavedShift ==
  IF editingId # NULL
  THEN LET found == {i \in 1..Len(shifts) : shifts[i].id = editingId.id}
           current == IF found # {}
                      THEN shifts[CHOOSE i \in found : \A j \in found : i <= j]
                      ELSE [id |-> editingId.id, date |-> form.date, start |-> form.start,
                            end |-> form.end, lunchMinutes |-> form.lunchMinutes,
                            comment |-> Trim(form.comment), hourlyRate |-> settings.hourlyRate]
       IN [current EXCEPT !.date = form.date, !.start = form.start, !.end = form.end,
                          !.lunchMinutes = form.lunchMinutes, !.comment = Trim(form.comment)]
  ELSE [id |-> RandomUUID(uuids), date |-> form.date, start |-> form.start, end |-> form.end,
        lunchMinutes |-> form.lunchMinutes, comment |-> Trim(form.comment),
        hourlyRate |-> settings.hourlyRate]

\* the Save button of the shift form: handleSave up to its await
HandleSave ==
  /\ alertMessage = NULL /\ isAddOpen
  /\ Len(saves) < MaxSaves
  /\ IF Rejected(form)
     THEN /\ alertMessage' = [message |-> SaveAlert]
          /\ UNCHANGED <<shifts, uuids, saves>>
     ELSE /\ shifts' = IF editingId # NULL
                       THEN [i \in 1..Len(shifts) |->
                               IF shifts[i].id = editingId.id THEN SavedShift ELSE shifts[i]]
                       ELSE Append(shifts, SavedShift)
          /\ uuids' = IF editingId # NULL THEN uuids ELSE uuids + 1
          /\ saves' = Append(saves, [pc |-> "put", row |-> SavedShift])
          /\ UNCHANGED alertMessage
  /\ UNCHANGED <<op, callVars, pageVars, dbShifts, settings, form, editingId, isAddOpen, invoiceVars>>

\* db.shifts.put has resolved: the row replaces the row of its id; then
\* closeModal
ShiftStored(i) ==
  /\ alertMessage = NULL
  /\ i \in 1..Len(saves) /\ saves[i].pc = "put"
  /\ dbShifts' = {row \in dbShifts : row.id # saves[i].row.id} \cup {saves[i].row}
  /\ saves' = [saves EXCEPT ![i] = [pc |-> "returned", row |-> NULL]]
  /\ isAddOpen' = FALSE
  /\ editingId' = NULL
  /\ UNCHANGED <<op, callVars, pageVars, shifts, settings, form, uuids, alertMessage, invoiceVars>>

\* db.shifts.put has rejected: console.error; then closeModal
ShiftNotStored(i) ==
  /\ alertMessage = NULL
  /\ i \in 1..Len(saves) /\ saves[i].pc = "put"
  /\ saves' = [saves EXCEPT ![i] = [pc |-> "returned", row |-> NULL]]
  /\ isAddOpen' = FALSE
  /\ editingId' = NULL
  /\ UNCHANGED <<op, callVars, pageVars, shifts, dbShifts, settings, form, uuids, alertMessage,
                 invoiceVars>>

\* handleDelete invocations are numbered 1..MaxSaves
DeleteIds == 1..MaxSaves

\* the Delete button of a shift of the home view: handleDelete up to its
\* await; ok is the answer to window.confirm
HandleDelete ==
  /\ alertMessage = NULL /\ ~ModalOpen
  /\ activeView = "home"
  /\ Len(deletes) < MaxSaves
  /\ \E i \in 1..Len(shifts), ok \in BOOLEAN :
       IF ~ok
       THEN UNCHANGED <<shifts, deletes>>
       ELSE /\ shifts' = SelectSeq(shifts, LAMBDA shift : shift.id # shifts[i].id)
            /\ deletes' = Append(deletes, [pc |-> "delete", id |-> [id |-> shifts[i].id]])
  /\ UNCHANGED <<op, callVars, formVars, invoiceVars, settingsVars, detailsVars, load,
                 alertMessage>>

\* db.shifts.delete has resolved
ShiftDeleted(i) ==
  /\ alertMessage = NULL
  /\ i \in 1..Len(deletes) /\ deletes[i].pc = "delete"
  /\ dbShifts' = {row \in dbShifts : row.id # deletes[i].id.id}
  /\ deletes' = [deletes EXCEPT ![i] = [pc |-> "returned", id |-> NULL]]
  /\ UNCHANGED <<op, callVars, shifts, settings, form, editingId, isAddOpen, uuids, saves,
                 invoiceVars, settingsVars, detailsVars, load, alertMessage>>

\* db.shifts.delete has rejected: console.error
ShiftNotDeleted(i) ==
  /\ alertMessage = NULL
  /\ i \in 1..Len(deletes) /\ deletes[i].pc = "delete"
  /\ deletes' = [deletes EXCEPT ![i] = [pc |-> "returned", id |-> NULL]]
  /\ UNCHANGED <<op, callVars, shifts, formVars, invoiceVars, settingsVars, detailsVars, load,
                 alertMessage>>

(***************************************************************************)
(* The menu, the Settings modal and the navigation of the reports          *)
(* (App.tsx).                                                              *)
(***************************************************************************)
\* saveSettings invocations are numbered 1..MaxSaves
SettingsSaveIds == 1..MaxSaves

\* the periods of the segment of the Settings modal
PeriodOptions == {"weekly", "monthly", "custom"}

\* hourly rates typed into the Settings modal
TypedHourlyRates == {30}

\* the Dashboard item of the menu
GoHome ==
  /\ alertMessage = NULL /\ ~ModalOpen
  /\ activeView' = "home"
  /\ UNCHANGED <<op, callVars, pageVars, shifts, formVars, alertMessage, periodOffset,
                 invoiceProfile, invoiceDraft, dbInvoiceProfile, invoiceForm,
                 isInvoiceScreenOpen, isInvoiceEditing, showEmailPrompt, lastInvoiceNumber,
                 invoices>>

\* the mutant lets every period be navigated
canNavigateReports_always(config) == TRUE

canNavigateReports(config) == config.period # "custom"

\* goPrevPeriod (direction -1) and goNextPeriod (direction 1), the buttons of
\* the header of the reports
GoPeriod(direction) ==
  /\ alertMessage = NULL /\ ~ModalOpen
  /\ activeView = "reports"
  /\ periodOffset + direction \in Offsets
  /\ periodOffset' = IF ~canNavigateReports(settings) THEN periodOffset
                     ELSE periodOffset + direction
  /\ UNCHANGED <<op, callVars, pageVars, shifts, formVars, alertMessage, activeView,
                 invoiceProfile, invoiceDraft, dbInvoiceProfile, invoiceForm,
                 isInvoiceScreenOpen, isInvoiceEditing, showEmailPrompt, lastInvoiceNumber,
                 invoices>>

GoPrevPeriod == GoPeriod(-1)

GoNextPeriod == GoPeriod(1)

\* the Settings item of the menu
OpenSettings ==
  /\ alertMessage = NULL /\ ~ModalOpen
  /\ settingsDraft' = settings
  /\ isSettingsOpen' = TRUE
  /\ UNCHANGED <<op, callVars, shifts, formVars, invoiceVars, dbSettings, settingsSaves,
                 detailsVars, deletes, load, alertMessage>>

\* the Close button and the backdrop of the Settings modal
CloseSettings ==
  /\ alertMessage = NULL /\ isSettingsOpen
  /\ isSettingsOpen' = FALSE
  /\ UNCHANGED <<op, callVars, shifts, formVars, invoiceVars, settingsDraft, dbSettings,
                 settingsSaves, detailsVars, deletes, load, alertMessage>>

\* the Reporting period segment and the Hourly rate input of the Settings
\* modal
EditSettingsDraft ==
  /\ alertMessage = NULL /\ isSettingsOpen
  /\ \/ \E period \in PeriodOptions : settingsDraft' = [settingsDraft EXCEPT !.period = period]
     \/ \E typed \in TypedHourlyRates :
          settingsDraft' = [settingsDraft EXCEPT !.hourlyRate = IF typed # 0 THEN typed ELSE 0]
  /\ UNCHANGED <<op, callVars, shifts, formVars, invoiceVars, isSettingsOpen, dbSettings,
                 settingsSaves, detailsVars, deletes, load, alertMessage>>

\* the Save button of the Settings modal: saveSettings up to its await
SaveSettings ==
  /\ alertMessage = NULL /\ isSettingsOpen
  /\ Len(settingsSaves) < MaxSaves
  /\ settings' = settingsDraft
  /\ periodOffset' = 0
  /\ settingsSaves' = Append(settingsSaves, [pc |-> "put", row |-> settingsDraft])
  /\ UNCHANGED <<op, callVars, shifts, dbShifts, form, editingId, isAddOpen, uuids, saves,
                 activeView, invoiceProfile, invoiceDraft, dbInvoiceProfile, invoiceForm,
                 isInvoiceScreenOpen, isInvoiceEditing, showEmailPrompt, lastInvoiceNumber,
                 invoices, settingsDraft, isSettingsOpen, dbSettings, detailsVars, deletes,
                 load, alertMessage>>

\* db.settings.put has resolved; then closeSettings
SettingsStored(i) ==
  /\ alertMessage = NULL
  /\ i \in 1..Len(settingsSaves) /\ settingsSaves[i].pc = "put"
  /\ dbSettings' = settingsSaves[i].row
  /\ settingsSaves' = [settingsSaves EXCEPT ![i] = [pc |-> "returned", row |-> NULL]]
  /\ isSettingsOpen' = FALSE
  /\ UNCHANGED <<op, callVars, shifts, formVars, invoiceVars, settingsDraft, detailsVars,
                 deletes, load, alertMessage>>

\* db.settings.put has rejected: console.error; then closeSettings
SettingsNotStored(i) ==
  /\ alertMessage = NULL
  /\ i \in 1..Len(settingsSaves) /\ settingsSaves[i].pc = "put"
  /\ settingsSaves' = [settingsSaves EXCEPT ![i] = [pc |-> "returned", row |-> NULL]]
  /\ isSettingsOpen' = FALSE
  /\ UNCHANGED <<op, callVars, shifts, formVars, invoiceVars, settingsDraft, dbSettings,
                 detailsVars, deletes, load, alertMessage>>

(***************************************************************************)
(* The Invoice details modal and the load effect (App.tsx).                *)
(***************************************************************************)
\* saveInvoiceProfile invocations are numbered 1..MaxSaves
ProfileSaveIds == 1..MaxSaves

\* the Invoice details item of the menu
OpenInvoiceModal ==
  /\ alertMessage = NULL /\ ~ModalOpen
  /\ invoiceDraft' = invoiceProfile
  /\ isInvoiceModalOpen' = TRUE
  /\ UNCHANGED <<op, callVars, shifts, formVars, alertMessage, activeView, periodOffset,
                 invoiceProfile, dbInvoiceProfile, invoiceForm, isInvoiceScreenOpen,
                 isInvoiceEditing, showEmailPrompt, lastInvoiceNumber, invoices, settingsVars,
                 profileSaves, deletes, load>>

\* the Close button and the backdrop of the Invoice details modal
CloseInvoiceModal ==
  /\ alertMessage = NULL /\ isInvoiceModalOpen
  /\ isInvoiceModalOpen' = FALSE
  /\ UNCHANGED <<op, callVars, shifts, formVars, invoiceVars, settingsVars, profileSaves,
                 deletes, load, alertMessage>>

\* the Full Name and Account number inputs of the Invoice details modal
EditInvoiceDraft ==
  /\ alertMessage = NULL /\ isInvoiceModalOpen
  /\ \/ invoiceDraft' = [invoiceDraft EXCEPT !.fullName = <<"A", "n", "n">>]
     \/ invoiceDraft' = [invoiceDraft EXCEPT !.accountNumber = <<"7">>]
  /\ UNCHANGED <<op, callVars, shifts, formVars, alertMessage, activeView, periodOffset,
                 invoiceProfile, dbInvoiceProfile, invoiceForm, isInvoiceScreenOpen,
                 isInvoiceEditing, showEmailPrompt, lastInvoiceNumber, invoices, settingsVars,
                 detailsVars, deletes, load>>

\* the Save button of the Invoice details modal: saveInvoiceProfile up to
\* its await
SaveInvoiceProfile ==
  /\ alertMessage = NULL /\ isInvoiceModalOpen
  /\ Len(profileSaves) < MaxSaves
  /\ invoiceProfile' = invoiceDraft
  /\ profileSaves' = Append(profileSaves, [pc |-> "put", row |-> invoiceDraft])
  /\ UNCHANGED <<op, callVars, shifts, formVars, alertMessage, activeView, periodOffset,
                 invoiceDraft, dbInvoiceProfile, invoiceForm, isInvoiceScreenOpen,
                 isInvoiceEditing, showEmailPrompt, lastInvoiceNumber, invoices, settingsVars,
                 isInvoiceModalOpen, deletes, load>>

\* db.invoiceProfile.put has resolved; then closeInvoiceModal
ProfileStored(i) ==
  /\ alertMessage = NULL
  /\ i \in 1..Len(profileSaves) /\ profileSaves[i].pc = "put"
  /\ dbInvoiceProfile' = profileSaves[i].row
  /\ profileSaves' = [profileSaves EXCEPT ![i] = [pc |-> "returned", row |-> NULL]]
  /\ isInvoiceModalOpen' = FALSE
  /\ UNCHANGED <<op, callVars, shifts, formVars, alertMessage, activeView, periodOffset,
                 invoiceProfile, invoiceDraft, invoiceForm, isInvoiceScreenOpen,
                 isInvoiceEditing, showEmailPrompt, lastInvoiceNumber, invoices, settingsVars,
                 deletes, load>>

\* db.invoiceProfile.put has rejected: console.error; then closeInvoiceModal
ProfileNotStored(i) ==
  /\ alertMessage = NULL
  /\ i \in 1..Len(profileSaves) /\ profileSaves[i].pc = "put"
  /\ profileSaves' = [profileSaves EXCEPT ![i] = [pc |-> "returned", row |-> NULL]]
  /\ isInvoiceModalOpen' = FALSE
  /\ UNCHANGED <<op, callVars, shifts, formVars, invoiceVars, settingsVars, deletes, load,
                 alertMessage>>

\* the insertion of a shift into an array ordered by id
RECURSIVE InsertById(_, _)
InsertById(array, row) ==
  IF array = <<>> THEN <<row>>
  ELSE IF StrLT(row.id, Head(array).id) THEN <<row>> \o array
  ELSE <<Head(array)>> \o InsertById(Tail(array), row)

\* db.shifts.toArray(): the rows in the order of their primary key, id
RECURSIVE ToArray(_)
ToArray(rows) ==
  IF rows = {} THEN <<>>
  ELSE LET row == CHOOSE r \in rows : TRUE
       IN InsertById(ToArray(rows \ {row}), row)

\* the databases App is mounted on: the empty database of the first run and
\* the database left by an earlier session, with the seeded shifts, the
\* default invoice profile the load effect had stored and a rate of 30
StoredDatabases ==
  {[shifts |-> {}, settings |-> NULL, invoiceProfile |-> NULL],
   [shifts |-> {initialShifts[i] : i \in 1..Len(initialShifts)},
    settings |-> [DEFAULT_SETTINGS EXCEPT !.hourlyRate = 30],
    invoiceProfile |-> DEFAULT_INVOICE_PROFILE]}

\* App as it is mounted: the state hooks have their initial values and the
\* load effect has asked for the rows of the three tables.  The reads are
\* queued before any write of a handler, so they give the rows of this moment
InitMount ==
  /\ op = "init"
  /\ args = NULL
  /\ source = <<>>
  /\ result = NULL
  /\ shifts = <<>>
  /\ \E database \in StoredDatabases :
       /\ dbShifts = database.shifts
       /\ dbSettings = database.settings
       /\ dbInvoiceProfile = database.invoiceProfile
       /\ load = [pc |-> "read", shiftRows |-> ToArray(database.shifts),
                  settingsRow |-> database.settings, invoiceRow |-> database.invoiceProfile]
  /\ settings = DEFAULT_SETTINGS
  /\ form = emptyForm
  /\ editingId = NULL
  /\ isAddOpen = FALSE
  /\ uuids = 0
  /\ saves = <<>>
  /\ alertMessage = NULL
  /\ activeView = "home"
  /\ periodOffset = 0
  /\ invoiceProfile = DEFAULT_INVOICE_PROFILE
  /\ invoiceDraft = DEFAULT_INVOICE_PROFILE
  /\ invoiceForm = [invoiceNumber |-> 1, rate |-> INITIAL_HOURLY_RATE, durationMinutes |-> 0,
                    total |-> NumZero]
  /\ isInvoiceScreenOpen = FALSE
  /\ isInvoiceEditing = FALSE
  /\ showEmailPrompt = FALSE
  /\ lastInvoiceNumber = NULL
  /\ invoices = <<>>
  /\ settingsDraft = DEFAULT_SETTINGS
  /\ isSettingsOpen = FALSE
  /\ settingsSaves = <<>>
  /\ isInvoiceModalOpen = FALSE
  /\ profileSaves = <<>>
  /\ deletes = <<>>

\* the state hooks the load effect sets, with the place the effect is at
LoadState ==
  [settings |-> settings, settingsDraft |-> settingsDraft, invoiceProfile |-> invoiceProfile,
   invoiceDraft |-> invoiceDraft, shifts |-> shifts, pc |-> load.pc]

\* the load effect from the shift rows on: it runs to its end, or to the
\* await of db.shifts.bulkPut
LoadShifts(state) ==
  IF Len(load.shiftRows) = 0
  THEN [state EXCEPT !.shifts = initialShifts, !.pc = "bulkPut"]
  ELSE [state EXCEPT !.shifts = load.shiftRows, !.pc = "done"]

\* the load effect from the invoice row on: it runs on, or to the await of
\* db.invoiceProfile.put
LoadInvoiceProfile(state) ==
  IF load.invoiceRow # NULL
  THEN LoadShifts([state EXCEPT !.invoiceProfile = load.invoiceRow,
                                !.invoiceDraft = load.invoiceRow])
  ELSE [state EXCEPT !.invoiceProfile = DEFAULT_INVOICE_PROFILE,
                     !.invoiceDraft = DEFAULT_INVOICE_PROFILE, !.pc = "putProfile"]

\* the load effect from the settings row on: it runs on, or to the await of
\* db.settings.put
LoadSettings(state) ==
  IF load.settingsRow # NULL
  THEN LoadInvoiceProfile([state EXCEPT !.settings = load.settingsRow,
                                        !.settingsDraft = load.settingsRow])
  ELSE [state EXCEPT !.settings = DEFAULT_SETTINGS, !.settingsDraft = DEFAULT_SETTINGS,
                     !.pc = "putSettings"]

\* the promise the load effect awaits has resolved: the effect runs to its
\* next await or to its end; a put that has resolved has written its rows
LoadContinue ==
  /\ alertMessage = NULL
  /\ load.pc \in {"read", "putSettings", "putProfile", "bulkPut"}
  /\ \E state \in {CASE load.pc = "read" -> LoadSettings(LoadState)
                     [] load.pc = "putSettings" -> LoadInvoiceProfile(LoadState)
                     [] load.pc = "putProfile" -> LoadShifts(LoadState)
                     [] load.pc = "bulkPut" -> [LoadState EXCEPT !.pc = "done"]} :
       /\ settings' = state.settings
       /\ settingsDraft' = state.settingsDraft
       /\ invoiceProfile' = state.invoiceProfile
       /\ invoiceDraft' = state.invoiceDraft
       /\ shifts' = state.shifts
       /\ load' = IF state.pc = "done" THEN Loaded ELSE [load EXCEPT !.pc = state.pc]
  /\ dbSettings' = IF load.pc = "putSettings" THEN DEFAULT_SETTINGS ELSE dbSettings
  /\ dbInvoiceProfile' = IF load.pc = "putProfile" THEN DEFAULT_INVOICE_PROFILE
                         ELSE dbInvoiceProfile
  /\ dbShifts' = IF load.pc = "bulkPut"
                 THEN {row \in dbShifts :
                         \A i \in 1..Len(initialShifts) : row.id # initialShifts[i].id}
                      \cup {initialShifts[i] : i \in 1..Len(initialShifts)}
                 ELSE dbShifts
  /\ UNCHANGED <<op, callVars, form, editingId, isAddOpen, uuids, saves, alertMessage,
                 activeView, periodOffset, invoiceForm, isInvoiceScreenOpen, isInvoiceEditing,
                 showEmailPrompt, lastInvoiceNumber, invoices, isSettingsOpen, settingsSaves,
                 detailsVars, deletes>>

\* time arithmetic
NextTime == MinutesBetween

SpecTime == Init /\ [][NextTime]_vars

\* period resolver and navigator
NextPeriod ==
  \/ GetPeriodRange
  \/ GetPeriodByOffset

SpecPeriod == Init /\ [][NextPeriod]_vars

\* aggregator
NextTotals ==
  \/ CalculateTotals
  \/ GroupShiftsByDay

SpecTotals == Init /\ [][NextTotals]_vars

\* reports
NextReport == Report

SpecReport == Init /\ [][NextReport]_vars

\* invoicing
NextInvoice ==
  \/ DismissAlert
  \/ OpenReports
  \/ OpenInvoiceScreen
  \/ CloseInvoiceScreen
  \/ ToggleInvoiceEditing
  \/ EditInvoiceForm
  \/ CloseEmailPrompt
  \/ SaveInvoicePdf
  \/ \E i \in InvoiceIds : InvoiceRendered(i)
  \/ \E i \in InvoiceIds : InvoiceRenderFailed(i)
  \/ \E i \in InvoiceIds : InvoiceProfileStored(i)
  \/ \E i \in InvoiceIds : InvoiceProfileNotStored(i)

SpecInvoice == InitInvoice /\ [][NextInvoice]_vars

\* the shift form
NextShiftForm ==
  \/ DismissAlert
  \/ OpenCreate
  \/ OpenEdit
  \/ UpdateTime
  \/ SetLunchMinutes
  \/ CloseModal
  \/ HandleSave
  \/ \E i \in SaveIds : ShiftStored(i)
  \/ \E i \in SaveIds : ShiftNotStored(i)

SpecShiftForm == InitShiftForm /\ [][NextShiftForm]_vars

\* invoicing with the invoice form left as proposed and the Save button
\* pressed once more than in SpecInvoice
NextInvoiceAgain ==
  \/ DismissAlert
  \/ OpenInvoiceScreen
  \/ CloseInvoiceScreen
  \/ CloseEmailPrompt
  \/ OpenReports
  \/ SaveInvoicePdfWithin(MaxInvoices + 1)
  \/ \E i \in 1..(MaxInvoices + 1) : InvoiceRendered(i)
  \/ \E i \in 1..(MaxInvoices + 1) : InvoiceRenderFailed(i)
  \/ \E i \in 1..(MaxInvoices + 1) : InvoiceProfileStored(i)
  \/ \E i \in 1..(MaxInvoices + 1) : InvoiceProfileNotStored(i)

SpecInvoiceAgain == InitInvoice /\ [][NextInvoiceAgain]_vars

\* the shift list: the shift form and the deletions
NextShiftList ==
  \/ NextShiftForm
  \/ HandleDelete
  \/ \E i \in DeleteIds : ShiftDeleted(i)
  \/ \E i \in DeleteIds : ShiftNotDeleted(i)

SpecShiftList == InitShiftForm /\ [][NextShiftList]_vars

\* the settings, the navigation of the reports and the creation of shifts
NextSettings ==
  \/ OpenReports
  \/ GoHome
  \/ GoPrevPeriod
  \/ GoNextPeriod
  \/ OpenSettings
  \/ CloseSettings
  \/ EditSettingsDraft
  \/ SaveSettings
  \/ \E i \in SettingsSaveIds : SettingsStored(i)
  \/ \E i \in SettingsSaveIds : SettingsNotStored(i)
  \/ OpenCreate
  \/ CloseModal
  \/ HandleSave
  \/ \E i \in SaveIds : ShiftStored(i)
  \/ \E i \in SaveIds : ShiftNotStored(i)

SpecSettings == InitShiftForm /\ [][NextSettings]_vars

\* the shift list while the load effect runs; every write succeeds
NextLoad ==
  \/ LoadContinue
  \/ OpenCreate
  \/ OpenEdit
  \/ CloseModal
  \/ HandleSave
  \/ \E i \in SaveIds : ShiftStored(i)
  \/ HandleDelete
  \/ \E i \in DeleteIds : ShiftDeleted(i)

SpecLoad == InitMount /\ [][NextLoad]_vars

\* invoicing while the load effect runs
NextMount ==
  \/ LoadContinue
  \/ OpenInvoiceModal
  \/ CloseInvoiceModal
  \/ EditInvoiceDraft
  \/ SaveInvoiceProfile
  \/ \E i \in ProfileSaveIds : ProfileStored(i)
  \/ \E i \in ProfileSaveIds : ProfileNotStored(i)
  \/ OpenCreate
  \/ HandleSave
  \/ \E i \in SaveIds : ShiftStored(i)
  \/ OpenReports
  \/ GoPrevPeriod
  \/ OpenInvoiceScreen
  \/ CloseInvoiceScreen
  \/ SaveInvoicePdf

SpecMount == InitMount /\ [][NextMount]_vars

\* the whole engine
Next ==
  \/ MinutesBetween
  \/ GetPeriodRange
  \/ GetPeriodByOffset
  \/ CalculateTotals
  \/ GroupShiftsByDay
  \/ Report

Spec == Init /\ [][Next]_vars

(***************************************************************************)
(* The calendar, as the properties speak of it: dates are records          *)
(* [y, m, d], moved one day or one month at a time.                        *)
(***************************************************************************)
NextDay(c) ==
  IF c.d < DaysInMonth(c.y, c.m) THEN [c EXCEPT !.d = c.d + 1]
  ELSE IF c.m < 12 THEN [y |-> c.y, m |-> c.m + 1, d |-> 1]
  ELSE [y |-> c.y + 1, m |-> 1, d |-> 1]

PrevDay(c) ==
  IF c.d > 1 THEN [c EXCEPT !.d = c.d - 1]
  ELSE IF c.m > 1 THEN [y |-> c.y, m |-> c.m - 1, d |-> DaysInMonth(c.y, c.m - 1)]
  ELSE [y |-> c.y - 1, m |-> 12, d |-> 31]

RECURSIVE AddDays(_, _)
AddDays(c, n) ==
  IF n = 0 THEN c
  ELSE IF n > 0 THEN AddDays(NextDay(c), n - 1)
  ELSE AddDays(PrevDay(c), n + 1)

\* the month lying k months after (before, when k < 0) month m of year y
RECURSIVE AddMonths(_, _)
AddMonths(ym, k) ==
  IF k = 0 THEN ym
  ELSE IF k > 0
  THEN AddMonths(IF ym.m = 12 THEN [y |-> ym.y + 1, m |-> 1] ELSE [y |-> ym.y, m |-> ym.m + 1],
                 k - 1)
  ELSE AddMonths(IF ym.m = 1 THEN [y |-> ym.y - 1, m |-> 12] ELSE [y |-> ym.y, m |-> ym.m - 1],
                 k + 1)

\* weekday of a date, 0 = sunday .. 6 = saturday
WeekdayOf(c) ==
  LET t == <<0, 3, 2, 5, 0, 3, 5, 1, 4, 6, 2, 4>>
      y == IF c.m < 3 THEN c.y - 1 ELSE c.y
  IN (y + (y \div 4) - (y \div 100) + (y \div 400) + t[c.m] + c.d) % 7

WeekdayNames == <<"sunday", "monday", "tuesday", "wednesday", "thursday", "friday", "saturday">>

WeekdayName(c) == WeekdayNames[WeekdayOf(c) + 1]

WeekdayNumber(name) == CHOOSE i \in 0..6 : WeekdayNames[i + 1] = name

CivilStr(c) == DateStr(c.y, c.m, c.d)

\* the date written by a YYYY-MM-DD string, and its rank in time
CivilOf(str) ==
  [y |-> ToNumber(SubSeq(str, 1, 4)), m |-> ToNumber(SubSeq(str, 6, 7)),
   d |-> ToNumber(SubSeq(str, 9, 10))]

CivilRank(c) == c.y * 10000 + c.m * 100 + c.d

Before(c1, c2) == CivilRank(c1) < CivilRank(c2)

NotAfter(c1, c2) == CivilRank(c1) <= CivilRank(c2)

(***************************************************************************)
(* Properties.                                                             *)
(***************************************************************************)
\* C1: for well-formed times with minutes-since-midnight s and e,
\* minutesBetween(start, end) is e - s when e >= s and e + 1440 - s when
\* e < s; minutesBetween(t, t) = 0, minutesBetween('09:00','17:00') = 480
\* and minutesBetween('22:30','06:00') = 450.
MinutesBetweenWraps ==
  op = "minutesBetween" =>
    LET s == args.startClock.h * 60 + args.startClock.m
        e == args.endClock.h * 60 + args.endClock.m
    IN /\ result = (IF e >= s THEN e - s ELSE e + 1440 - s)
       /\ (args.start = args.end => result = 0)
       /\ (args.start = <<"0", "9", ":", "0", "0">> /\ args.end = <<"1", "7", ":", "0", "0">>
             => result = 480)
       /\ (args.start = <<"2", "2", ":", "3", "0">> /\ args.end = <<"0", "6", ":", "0", "0">>
             => result = 450)

\* an overnight span has been measured
MinutesBetweenOvernight ==
  /\ op = "minutesBetween"
  /\ args.start = <<"2", "2", ":", "3", "0">>
  /\ args.end = <<"0", "6", ":", "0", "0">>
  /\ result = 450

\* C2: for a weekly config, getPeriodRange starts on the configured weekStart
\* weekday, at the reference day minus
\* ((referenceWeekday - weekStartWeekday + 7) mod 7) days, an offset in 0..6,
\* and ends exactly 6 days after its start; weekStart monday and reference
\* 2025-01-15 give {2025-01-13, 2025-01-19}.
WeeklyRangeAnchored ==
  (op = "getPeriodRange" /\ args.settings.period = "weekly") =>
    LET k == (WeekdayOf(args.local) - WeekdayNumber(args.settings.weekStart) + 7) % 7
        first == AddDays(args.local, -k)
    IN /\ k \in 0..6
       /\ result # NULL
       /\ result.start = CivilStr(first)
       /\ WeekdayName(first) = args.settings.weekStart
       /\ result.end = CivilStr(AddDays(first, 6))
       /\ (args.settings.weekStart = "monday" /\ args.local = [y |-> 2025, m |-> 1, d |-> 15]
             => result = [start |-> DateStr(2025, 1, 13), end |-> DateStr(2025, 1, 19)])

\* a week that starts in the month before the reference date's has been resolved
WeeklyRangeAcrossMonths ==
  /\ op = "getPeriodRange"
  /\ args.settings.period = "weekly"
  /\ args.settings.weekStart = "monday"
  /\ args.local = [y |-> 2025, m |-> 1, d |-> 1]
  /\ args.tz = -300
  /\ result = [start |-> DateStr(2024, 12, 30), end |-> DateStr(2025, 1, 5)]

\* C3: for a monthly config, getPeriodRange returns the first and the last
\* calendar day of the reference date's month, the last day following the
\* real month length (29 for February of a leap year, 28 otherwise).
MonthlyRangeWholeMonth ==
  (op = "getPeriodRange" /\ args.settings.period = "monthly") =>
    /\ result # NULL
    /\ result.start = DateStr(args.local.y, args.local.m, 1)
    /\ result.end = DateStr(args.local.y, args.local.m, DaysInMonth(args.local.y, args.local.m))

\* February of a leap year has been resolved
MonthlyRangeLeapFebruary ==
  /\ op = "getPeriodRange"
  /\ args.settings.period = "monthly"
  /\ args.local = [y |-> 2024, m |-> 2, d |-> 15]
  /\ result = [start |-> DateStr(2024, 2, 1), end |-> DateStr(2024, 2, 29)]

\* C4: offset 0 means the current period: for every config, reference date
\* and zone of the host, getPeriodByOffset(config, 0, ref) returns the same
\* value as getPeriodRange(config, ref).
OffsetZeroIsCurrentPeriod ==
  (op = "getPeriodByOffset" /\ args.offset = 0) =>
    result = getPeriodRange(args.settings, args.todayInput, args.tz)

\* C5: for a weekly config, getPeriodByOffset returns the base range with
\* start and end each moved by offset * 7 calendar days: a window 7 days
\* wide that starts on the configured weekStart weekday; weekStart monday and
\* reference 2025-01-15 give {2025-01-06, 2025-01-12} at offset -1 and
\* {2025-01-20, 2025-01-26} at offset +1.
WeeklyOffsetShiftsBySevenDays ==
  (op = "getPeriodByOffset" /\ args.settings.period = "weekly") =>
    LET k == (WeekdayOf(args.local) - WeekdayNumber(args.settings.weekStart) + 7) % 7
        first == AddDays(AddDays(args.local, -k), args.offset * 7)
    IN /\ result # NULL
       /\ result.start = CivilStr(first)
       /\ result.end = CivilStr(AddDays(first, 6))
       /\ WeekdayName(first) = args.settings.weekStart
       /\ (args.settings.weekStart = "monday" /\ args.local = [y |-> 2025, m |-> 1, d |-> 15]
             => /\ args.offset = -1 =>
                     result = [start |-> DateStr(2025, 1, 6), end |-> DateStr(2025, 1, 12)]
                /\ args.offset = 1 =>
                     result = [start |-> DateStr(2025, 1, 20), end |-> DateStr(2025, 1, 26)])

\* C6: for a monthly config, getPeriodByOffset returns the first and the last
\* day of the calendar month lying exactly offset months after (or before)
\* the reference date's month, across year boundaries in both directions;
\* reference 2025-01-15 gives {2024-12-01, 2024-12-31} at offset -1 and
\* {2025-02-01, 2025-02-28} at offset +1.
MonthlyOffsetShiftsByMonths ==
  (op = "getPeriodByOffset" /\ args.settings.period = "monthly") =>
    LET target == AddMonths([y |-> args.local.y, m |-> args.local.m], args.offset)
    IN /\ result # NULL
       /\ result.start = DateStr(target.y, target.m, 1)
       /\ result.end = DateStr(target.y, target.m, DaysInMonth(target.y, target.m))
       /\ (args.local = [y |-> 2025, m |-> 1, d |-> 15]
             => /\ args.offset = -1 =>
                     result = [start |-> DateStr(2024, 12, 1), end |-> DateStr(2024, 12, 31)]
                /\ args.offset = 1 =>
                     result = [start |-> DateStr(2025, 2, 1), end |-> DateStr(2025, 2, 28)])

\* C7: for a config whose period is custom, getPeriodRange returns null for
\* every reference date and getPeriodByOffset returns null for every offset
\* and reference date.
CustomPeriodIsNull ==
  (op \in {"getPeriodRange", "getPeriodByOffset"} /\ args.settings.period = "custom") =>
    result = NULL

\* a custom period has been navigated by a non-zero offset
CustomPeriodNavigated ==
  /\ op = "getPeriodByOffset"
  /\ args.settings.period = "custom"
  /\ args.offset = -1
  /\ result = NULL

\* the shifts of a collection whose date lies in a range, in their order
InRange(shift, periodRange) ==
  periodRange = NULL
  \/ /\ NotAfter(CivilOf(periodRange.start), CivilOf(shift.date))
     /\ NotAfter(CivilOf(shift.date), CivilOf(periodRange.end))

Included(list, periodRange) == SelectSeq(list, LAMBDA shift : InRange(shift, periodRange))

\* minutes worked in a shift and its pay, as section 4.4 gives them
WorkedMinutes(shift) == Max(minutesBetween(shift.start, shift.end) - shift.lunchMinutes, 0)

PayOf(shift) == NumTimes(NumDivSixty(WorkedMinutes(shift)), shift.hourlyRate)

RECURSIVE SumWorked(_)
SumWorked(list) ==
  IF list = <<>> THEN 0 ELSE WorkedMinutes(list[Len(list)]) + SumWorked(SubSeq(list, 1, Len(list) - 1))

RECURSIVE SumPay(_)
SumPay(list) ==
  IF list = <<>> THEN NumZero
  ELSE NumPlus(SumPay(SubSeq(list, 1, Len(list) - 1)), PayOf(list[Len(list)]))

OnDate(list, date) == SelectSeq(list, LAMBDA shift : shift.date = date)

\* C8: calculateTotals and groupShiftsByDay apply the same filter: with a
\* null periodRange every shift is included; otherwise a shift is included
\* if and only if periodRange.start <= shift.date <= periodRange.end, and
\* no shift outside the range contributes to the result.
FilterIsInclusiveRange ==
  (op \in {"calculateTotals", "groupShiftsByDay"}) =>
    /\ source = Included(args.shifts, args.periodRange)
    /\ (args.periodRange = NULL => source = args.shifts)
    /\ (op = "calculateTotals" => result.durationMinutes = SumWorked(source))
    /\ (op = "groupShiftsByDay" =>
          \A i \in 1..Len(result) :
            result[i].durationMinutes = SumWorked(OnDate(source, result[i].date)))

\* a grouping has kept a shift dated on the last day of the range and
\* dropped one dated before its first day
FilterKeepsLastDay ==
  /\ op = "groupShiftsByDay"
  /\ args.periodRange = [start |-> DateStr(2025, 1, 13), end |-> DateStr(2025, 1, 14)]
  /\ Len(args.shifts) = 2
  /\ args.shifts[1].date = DateStr(2025, 1, 14)
  /\ args.shifts[2].date = DateStr(2025, 1, 10)
  /\ Len(source) = 1
  /\ source[1] = args.shifts[1]

\* C9: calculateTotals returns durationMinutes = the sum over included shifts
\* of max(minutesBetween(start, end) - lunchMinutes, 0) and pay = the sum over
\* included shifts of (that value / 60) * hourlyRate; with no shift included
\* it returns {pay: 0, durationMinutes: 0}.
TotalsAreSums ==
  op = "calculateTotals" =>
    LET included == Included(args.shifts, args.periodRange)
    IN /\ result.durationMinutes = SumWorked(included)
       /\ result.pay = SumPay(included)
       /\ (included = <<>> => result = [pay |-> NumOfInt(0), durationMinutes |-> 0])

\* the totals of the overnight shift, the day shift and a shift whose lunch
\* exceeds its span have been computed for all time: 870 minutes, pay 325
TotalsOfTwoShifts ==
  /\ op = "calculateTotals"
  /\ args.periodRange = NULL
  /\ Len(args.shifts) = 3
  /\ args.shifts[1].date = DateStr(2025, 1, 13) /\ args.shifts[1].start = TimeStr(22, 0)
  /\ args.shifts[2].date = DateStr(2025, 1, 10) /\ args.shifts[2].start = TimeStr(9, 0)
  /\ args.shifts[2].lunchMinutes = 60
  /\ args.shifts[3].lunchMinutes = 45
  /\ result = [pay |-> NumOfInt(325), durationMinutes |-> 870]

\* C10: groupShiftsByDay returns exactly one DayTotal for each distinct date
\* that has an included shift and none for any other date, each with the sum
\* of worked minutes and of pay over the included shifts of that date, in
\* strictly descending date order whatever the order of the input.
DaysGroupedDescending ==
  op = "groupShiftsByDay" =>
    LET included == Included(args.shifts, args.periodRange)
        dates == {included[i].date : i \in 1..Len(included)}
    IN /\ {result[i].date : i \in 1..Len(result)} = dates
       /\ Len(result) = Cardinality(dates)
       /\ \A i \in 1..Len(result) :
            /\ result[i].durationMinutes = SumWorked(OnDate(included, result[i].date))
            /\ result[i].pay = SumPay(OnDate(included, result[i].date))
       /\ \A i \in 1..(Len(result) - 1) :
            Before(CivilOf(result[i + 1].date), CivilOf(result[i].date))

\* three shifts given in ascending date order, two of them on one day, have
\* been grouped into two days
DaysGroupedFromAscendingInput ==
  /\ op = "groupShiftsByDay"
  /\ Len(args.shifts) = 3
  /\ args.shifts[1].date = DateStr(2025, 1, 13)
  /\ args.shifts[2].date = DateStr(2025, 1, 13)
  /\ args.shifts[3].date = DateStr(2025, 1, 14)
  /\ Len(result) = 2
  /\ result[1].date = DateStr(2025, 1, 14)
  /\ result[2].date = DateStr(2025, 1, 13)

\* the sum of the durationMinutes of a list of DayTotals
RECURSIVE SumDayMinutes(_)
SumDayMinutes(days) ==
  IF days = <<>> THEN 0
  ELSE SumDayMinutes(SubSeq(days, 1, Len(days) - 1)) + days[Len(days)].durationMinutes

\* the sum of the pay of a list of DayTotals, added in the order of the list
RECURSIVE SumDayPay(_)
SumDayPay(days) ==
  IF days = <<>> THEN NumZero
  ELSE NumPlus(SumDayPay(SubSeq(days, 1, Len(days) - 1)), days[Len(days)].pay)

\* |a - b| of two numbers that are not negative, exactly
NumDistance(a, b) == IF FixLT(a.mag, b.mag) THEN FixSub(b.mag, a.mag) ELSE FixSub(a.mag, b.mag)

\* two numbers that are not negative differ by at most n * 2^-51 times the
\* first (2^51 is three bits above two limbs)
NumClose(a, b, n) ==
  LET t == FixMul(a.mag, n)
      bound == <<(t[3] \div 8) + (t[4] % 8) * (LimbBase \div 8), t[4] \div 8, 0, 0>>
  IN ~FixLT(bound, NumDistance(a, b))

\* C11 as stated: the durationMinutes of the DayTotals of groupShiftsByDay
\* add up to calculateTotals(...).durationMinutes and their pay adds up to
\* exactly calculateTotals(...).pay, for the same shifts and periodRange
ReportSumsEqual ==
  op = "report" =>
    /\ SumDayMinutes(result.reportDays) = result.reportTotals.durationMinutes
    /\ SumDayPay(result.reportDays) = result.reportTotals.pay

\* C11: the durationMinutes of the DayTotals of groupShiftsByDay add up to
\* calculateTotals(...).durationMinutes exactly, and their pay, added in the
\* order of the list, adds up to calculateTotals(...).pay to within
\* floating-point tolerance: the two differ by at most n * 2^-51 times the
\* total, n being the number of included shifts
ReportSumsAgree ==
  op = "report" =>
    /\ SumDayMinutes(result.reportDays) = result.reportTotals.durationMinutes
    /\ NumClose(result.reportTotals.pay, SumDayPay(result.reportDays), Len(source))

\* three shifts of two days whose pay adds up differently by day and in the
\* order of the collection
ReportSumsRoundDifferently ==
  /\ op = "report"
  /\ Len(source) = 3
  /\ Len(result.reportDays) = 2
  /\ SumDayPay(result.reportDays) # result.reportTotals.pay

\* C12: for a weekly or monthly config, every reference instant and every
\* offset of the local zone from UTC, the range of getPeriodRange contains
\* the local calendar date of the reference instant:
\* start <= localDate(ref) <= end
RangeContainsLocalDate ==
  (op = "getPeriodRange" /\ args.settings.period \in {"weekly", "monthly"}) =>
    /\ result # NULL
    /\ StrLE(result.start, CivilStr(args.local))
    /\ StrLE(CivilStr(args.local), result.end)

\* a month has been resolved for an instant of its last local day that lies
\* in the next month by the UTC date
RangeOfLastLocalEvening ==
  /\ op = "getPeriodRange"
  /\ args.settings.period = "monthly"
  /\ args.tz = -300
  /\ args.clock = 1439
  /\ args.local = [y |-> 2024, m |-> 1, d |-> 31]
  /\ GetMonth(args.todayInput, 0) = 1
  /\ result = [start |-> DateStr(2024, 1, 1), end |-> DateStr(2024, 1, 31)]

\* C13: every non-null PeriodRange returned by getPeriodRange or by
\* getPeriodByOffset, for any config, offset, reference date and zone,
\* has start <= end
RangeStartNotAfterEnd ==
  (op \in {"getPeriodRange", "getPeriodByOffset"} /\ result # NULL) =>
    StrLE(result.start, result.end)

\* west of UTC, a period that begins in one year and ends in the next has
\* been navigated to
RangesNavigated ==
  /\ op = "getPeriodByOffset"
  /\ args.offset # 0
  /\ args.tz = -300
  /\ result # NULL
  /\ SubSeq(result.start, 1, 4) # SubSeq(result.end, 1, 4)

\* C14: calculateTotals and groupShiftsByDay leave their input collection
\* unchanged: after either call, with a null or a non-null periodRange, the
\* collection has the same shifts in the same order and every shift has the
\* same field values as before the call
InputShiftsUnchanged ==
  op \in {"calculateTotals", "groupShiftsByDay"} => shifts = args.shifts

\* with no range, three shifts given in ascending date order have been
\* grouped into days in descending order and are still in their order
AscendingInputKeptInOrder ==
  /\ op = "groupShiftsByDay"
  /\ args.periodRange = NULL
  /\ Len(args.shifts) = 3
  /\ args.shifts[1].date = DateStr(2025, 1, 10)
  /\ args.shifts[2].date = DateStr(2025, 1, 13)
  /\ args.shifts[3].date = DateStr(2025, 1, 14)
  /\ Len(result) = 3
  /\ result[1].date = DateStr(2025, 1, 14)
  /\ shifts[1].date = DateStr(2025, 1, 10)

\* C18: for every pair of well-formed HH:MM times the difference that
\* minutesBetween computes after the wrap rule is already non-negative, so
\* the final clamp to 0 never changes the result, and the result lies in
\* 0..1439
ClampNeverActs ==
  op = "minutesBetween" =>
    /\ WrappedDifference(args.start, args.end) >= 0
    /\ result = WrappedDifference(args.start, args.end)
    /\ result \in 0..1439

\* equal start and end, not at midnight, have been measured as 0 minutes
EqualTimesMeasured ==
  /\ op = "minutesBetween"
  /\ args.startClock = [h |-> 9, m |-> 30]
  /\ args.endClock = args.startClock
  /\ result = 0

\* C19: the result of getPeriodRange and of getPeriodByOffset depends only
\* on the local calendar day of the reference instant, not on its time of
\* day: for any config and offset, a reference instant at the first or the
\* last minute of a local day yields the result of the instant at 11:59 of
\* that day, so that instants of one local day yield identical results
ResultDependsOnLocalDayOnly ==
  /\ op = "getPeriodRange" =>
       getPeriodRange(args.settings, InstantOf(args.local, 719, args.tz), args.tz) = result
  /\ op = "getPeriodByOffset" =>
       getPeriodByOffset(args.settings, args.offset,
                         InstantOf(args.local, 719, args.tz), args.tz) = result

\* a week has been navigated to from the last minute of a local day that is
\* the first day of its week
LastMinuteOfFirstWeekday ==
  /\ op = "getPeriodByOffset"
  /\ args.settings.period = "weekly"
  /\ args.offset = 1
  /\ args.clock = 1439
  /\ args.tz = 600
  /\ WeekdayName(args.local) = args.settings.weekStart
  /\ result # NULL
  /\ result.start = CivilStr(AddDays(args.local, 7))

\* C20: for shifts with well-formed times, lunchMinutes >= 0 and
\* hourlyRate >= 0 and every periodRange, every DayTotal of groupShiftsByDay
\* has durationMinutes >= 0 and pay >= 0, and calculateTotals returns
\* durationMinutes >= 0 and pay >= 0, even when the lunchMinutes of a shift
\* exceed its elapsed minutes
TotalsNeverNegative ==
  /\ op = "calculateTotals" =>
       result.durationMinutes >= 0 /\ NumNonNegative(result.pay)
  /\ op = "groupShiftsByDay" =>
       \A i \in 1..Len(result) :
         result[i].durationMinutes >= 0 /\ NumNonNegative(result[i].pay)

\* a day whose only shift has a lunch longer than its elapsed minutes has
\* been grouped
LunchLongerThanShiftGrouped ==
  /\ op = "groupShiftsByDay"
  /\ Len(source) = 1
  /\ source[1].lunchMinutes > minutesBetween(source[1].start, source[1].end)
  /\ Len(result) = 1
  /\ result[1].durationMinutes = 0
  /\ result[1].pay = NumZero

\* C15: when an invocation of saveInvoicePdf that rendered its invoice, with
\* invoice number n while the profile's nextInvoiceNumber was m, ends, the
\* profile's nextInvoiceNumber is max(n, m) + 1 both in memory and in the
\* persisted invoice profile
InvoiceNumberAdvances ==
  [][\A i \in 1..Len(invoices) :
       (/\ invoices[i].pc \in {"generateInvoicePdf", "put"}
        /\ invoices'[i].pc \in {"returned", "caught"}
        /\ invoices'[i].rendered)
       => LET n == invoices[i].invoiceNumber
              m == invoices[i].profile.nextInvoiceNumber
          IN /\ invoiceProfile'.nextInvoiceNumber = Max(n, m) + 1
             /\ dbInvoiceProfile' # NULL
             /\ dbInvoiceProfile'.nextInvoiceNumber = Max(n, m) + 1]_vars

\* C16 as stated: whenever generateInvoicePdf is called, its subtotal and
\* balanceDue equal calculateTotals(shifts, period).pay and its
\* quantityMinutes equals calculateTotals(shifts, period).durationMinutes,
\* for the period passed in the same call
RendererReceivesTotals ==
  \A i \in 1..Len(invoices) :
    invoices[i].params # NULL =>
      LET totals == calculateTotals(shifts, invoices[i].params.period)
      IN /\ invoices[i].params.subtotal = totals.pay
         /\ invoices[i].params.balanceDue = totals.pay
         /\ invoices[i].params.quantityMinutes = totals.durationMinutes

\* C16: whenever generateInvoicePdf is called, its quantityMinutes is the
\* durationMinutes of the invoice form and its subtotal and balanceDue are
\* the total of the invoice form; the form's durationMinutes changes only
\* when the invoice screen is opened, to calculateTotals(...).durationMinutes
\* of the report period, and its total changes only then, to
\* calculateTotals(...).pay, or when the user types one in edit mode
RendererReceivesForm ==
  [][/\ Len(invoices') > Len(invoices) =>
          LET params == invoices'[Len(invoices')].params
          IN /\ params.quantityMinutes = invoiceForm.durationMinutes
             /\ params.subtotal = invoiceForm.total
             /\ params.balanceDue = invoiceForm.total
     /\ invoiceForm'.durationMinutes # invoiceForm.durationMinutes =>
          /\ isInvoiceScreenOpen' /\ ~isInvoiceScreenOpen
          /\ invoiceForm'.durationMinutes =
               ReportTotals(shifts, settings, periodOffset).durationMinutes
     /\ invoiceForm'.total # invoiceForm.total =>
          \/ isInvoiceScreenOpen /\ isInvoiceEditing
          \/ /\ isInvoiceScreenOpen' /\ ~isInvoiceScreenOpen
             /\ invoiceForm'.total = ReportTotals(shifts, settings, periodOffset).pay]_vars

\* generateInvoicePdf has been called with a total typed in edit mode, which
\* is not the pay of the period, and with the duration of the period
RendererCalledWithTypedTotal ==
  \E i \in 1..Len(invoices) :
    /\ invoices[i].pc = "generateInvoicePdf"
    /\ invoices[i].params.subtotal = NumOfInt(100)
    /\ invoices[i].params.subtotal # calculateTotals(shifts, invoices[i].params.period).pay
    /\ invoices[i].params.quantityMinutes =
         calculateTotals(shifts, invoices[i].params.period).durationMinutes
    /\ invoices[i].params.quantityMinutes > 0

\* C17: handleSave rejects a proposed shift whose worked minutes,
\* minutesBetween(form.start, form.end) - form.lunchMinutes, are negative:
\* it shows a blocking message, leaves the in-memory shifts and the
\* persisted shifts unchanged (no write is started) and keeps the shift form
\* open, when creating and when editing
ShiftFormRejectsNegative ==
  [][(HandleSave /\ minutesBetween(form.start, form.end) - form.lunchMinutes < 0)
       => /\ alertMessage' = [message |-> SaveAlert]
          /\ shifts' = shifts
          /\ dbShifts' = dbShifts
          /\ saves' = saves
          /\ isAddOpen'
          /\ editingId' = editingId
          /\ form' = form]_vars

\* the edit of a shift to 30 minutes with a lunch of 60 has been rejected
NegativeEditRejected ==
  /\ alertMessage = [message |-> SaveAlert]
  /\ isAddOpen
  /\ editingId = [id |-> <<"1">>]
  /\ form.start = TimeStr(17, 0)
  /\ form.end = TimeStr(17, 30)
  /\ form.lunchMinutes = 60
  /\ shifts = initialShifts
  /\ saves = <<>>

\* C22: for a weekly or monthly config and a fixed reference date, the
\* periods returned by getPeriodByOffset for consecutive offsets tile the
\* calendar: the start of the period at offset k+1 is the day after the end
\* of the period at offset k
PeriodsTileCalendar ==
  (op = "getPeriodByOffset" /\ args.settings.period \in {"weekly", "monthly"}) =>
    LET following == getPeriodByOffset(args.settings, args.offset + 1, args.todayInput,
                                       args.tz)
    IN CivilOf(following.start) = NextDay(CivilOf(result.end))

\* the calendar days of a range, of which there are at most 31
DaysOfRange(periodRange) ==
  {day \in {AddDays(CivilOf(periodRange.start), n) : n \in 0..30} :
     NotAfter(day, CivilOf(periodRange.end))}

\* C23: for a weekly or monthly config, any offset k and any reference date
\* d, getPeriodByOffset(config, k, d) equals getPeriodRange(config, d') for
\* every reference date d' whose calendar day lies inside the returned range
NavigatedPeriodIsCanonical ==
  (op = "getPeriodByOffset" /\ args.settings.period \in {"weekly", "monthly"}) =>
    \A day \in DaysOfRange(result) :
      getPeriodRange(args.settings, InstantOf(day, 720, args.tz), args.tz) = result

\* the totals of the home view and the days and totals of the reports, as a
\* render of App computes them from a shift collection and the settings
Aggregates(list, config, offset) ==
  [totals |-> calculateTotals(list, getPeriodRange(config, Now, HostZone)),
   reportDays |-> groupShiftsByDay(list, getPeriodByOffset(config, offset, Now, HostZone)),
   reportTotals |-> calculateTotals(list, getPeriodByOffset(config, offset, Now, HostZone))]

\* C21: the default hourly rate of the settings is not used in aggregation:
\* saving settings changes no shift, in memory or persisted, so that no
\* existing shift changes its hourlyRate; when the saved settings differ from
\* the previous ones in hourlyRate only, the totals of the home view and the
\* days and totals of the reports are the same before and after; and a
\* shift created takes the hourlyRate of the settings of that moment
RateOfSettingsIsDefaultOnly ==
  [][/\ SaveSettings =>
          /\ shifts' = shifts
          /\ dbShifts' = dbShifts
          /\ settings' = [settings EXCEPT !.hourlyRate = settings'.hourlyRate] =>
               Aggregates(shifts', settings', periodOffset)
                 = Aggregates(shifts, settings, periodOffset)
     /\ Len(shifts') > Len(shifts) =>
          /\ shifts'[Len(shifts')].hourlyRate = settings.hourlyRate
          /\ \A i \in 1..Len(shifts) : shifts'[i] = shifts[i]]_vars

\* a rate of 30 has been saved in the settings; the seeded shifts still have
\* the rate of 25 and a shift created afterwards has the rate of 30
ShiftCreatedAtNewRate ==
  /\ settings.hourlyRate = 30
  /\ settingsSaves # <<>>
  /\ dbSettings # NULL /\ dbSettings.hourlyRate = 30
  /\ Len(shifts) = 4
  /\ \A i \in 1..3 : shifts[i] = initialShifts[i]
  /\ shifts[4].hourlyRate = 30

\* C24: starting from the seeded shifts, after any sequence of creations,
\* edits and deletions through handleSave and handleDelete, every shift in
\* memory satisfies minutesBetween(start, end) - lunchMinutes >= 0
ShiftsInMemoryNeverNegative ==
  \A i \in 1..Len(shifts) :
    minutesBetween(shifts[i].start, shifts[i].end) - shifts[i].lunchMinutes >= 0

\* shift 1 has been deleted and shift 2 edited to 17:00-18:15 with its lunch
\* of 45 minutes, which leaves 30 minutes of work
ShiftsEditedAndDeleted ==
  /\ Len(shifts) = 2
  /\ shifts[1].id = <<"2">>
  /\ shifts[1].start = TimeStr(17, 0)
  /\ shifts[1].end = TimeStr(18, 15)
  /\ shifts[1].lunchMinutes = 45
  /\ shifts[2] = initialShifts[3]
  /\ deletes # <<>>

\* C25: an accepted edit through handleSave changes only the date, start,
\* end, lunchMinutes and comment of the shift whose id is editingId: that
\* shift keeps its id and its hourlyRate, every other shift is unchanged and
\* the number of shifts in memory is unchanged
EditChangesFormFieldsOnly ==
  [][(HandleSave /\ editingId # NULL /\ ~Rejected(form)) =>
       /\ Len(shifts') = Len(shifts)
       /\ \A i \in 1..Len(shifts) :
            shifts'[i] = IF shifts[i].id = editingId.id
                         THEN [shifts[i] EXCEPT !.date = form.date, !.start = form.start,
                                                !.end = form.end,
                                                !.lunchMinutes = form.lunchMinutes,
                                                !.comment = Trim(form.comment)]
                         ELSE shifts[i]]_vars

\* with a rate of 30 in the settings, the seeded shift 1 has been edited to
\* a lunch of 120 minutes and has kept its rate of 25
EditedShiftKeepsRate ==
  /\ settings.hourlyRate = 30
  /\ Len(shifts) = 3
  /\ shifts[1].id = <<"1">>
  /\ shifts[1].lunchMinutes = 120
  /\ shifts[1].hourlyRate = INITIAL_HOURLY_RATE
  /\ shifts[2] = initialShifts[2]
  /\ saves # <<>>

MemoryHoldsStoredShifts ==
  (/\ load.pc = "done"
   /\ \A i \in 1..Len(saves) : saves[i].pc = "returned"
   /\ \A i \in 1..Len(deletes) : deletes[i].pc = "returned")
  => /\ {shifts[i] : i \in 1..Len(shifts)} = dbShifts
     /\ \A i, j \in 1..Len(shifts) : shifts[i].id = shifts[j].id => i = j

\* C29: generateInvoicePdf is never called with a null period or with a
\* blank sender name or account number
RendererGetsPeriodAndSender ==
  \A i \in 1..Len(invoices) :
    invoices[i].pc = "generateInvoicePdf" =>
      /\ invoices[i].params.period # NULL
      /\ Trim(invoices[i].params.profile.fullName) # <<>>
      /\ Trim(invoices[i].params.profile.accountNumber) # <<>>

\* C27: two saveInvoicePdf invocations that both render successfully, with
\* the invoice number left at its proposed value, never render the same
\* invoice number
RenderedNumbersDiffer ==
  \A i, j \in 1..Len(invoices) :
    (i # j /\ invoices[i].rendered /\ invoices[j].rendered) =>
      invoices[i].invoiceNumber # invoices[j].invoiceNumber

\* C28: when generateInvoicePdf fails inside saveInvoicePdf, the profile's
\* nextInvoiceNumber in memory, the persisted profile, lastInvoiceNumber, the
\* invoice screen and the email prompt are as they were; and whenever the
\* failure message is shown, the nextInvoiceNumber in memory equals the
\* persisted one
FailedRenderChangesNothing ==
  /\ [][\A i \in 1..Len(invoices) :
          (invoices[i].pc = "generateInvoicePdf" /\ invoices'[i].pc = "caught") =>
            /\ invoiceProfile'.nextInvoiceNumber = invoiceProfile.nextInvoiceNumber
            /\ dbInvoiceProfile' = dbInvoiceProfile
            /\ lastInvoiceNumber' = lastInvoiceNumber
            /\ isInvoiceScreenOpen' = isInvoiceScreenOpen
            /\ showEmailPrompt' = showEmailPrompt]_vars
  /\ [](alertMessage = [message |-> InvoiceAlert] =>
          /\ dbInvoiceProfile # NULL
          /\ invoiceProfile.nextInvoiceNumber = dbInvoiceProfile.nextInvoiceNumber)

====
